---- MODULE Spec2Model ----
(***************************************************************************)
(* joko-bot: the webhook-driven extraction pipeline.                       *)
(*                                                                         *)
(*   - LLMClient.run_completion (src/src/llm/client.py): the pickle cache, *)
(*     the bounded retry loop, the completion history;                     *)
(*   - notion_webhook (src/app.py): handshake, signature verification,     *)
(*     the status guard and the extraction run, one thread per delivery;   *)
(*   - NotionClient (src/src/notion/client.py): the document store calls.  *)
(*                                                                         *)
(* Threads interleave at their file and network calls: one action is one   *)
(* such call together with the local code around it (time.sleep touches    *)
(* nothing shared and belongs to the except clause it stands in).          *)
(***************************************************************************)
EXTENDS Integers, Sequences, FiniteSets, TLC

\* a text: the JSON value it spells ("invalid" when it is not JSON) and how it is
\* laid out; the empty string is EmptyContent
Text(json, fmt) == [json |-> json, fmt |-> fmt]
EmptyContent == Text("", "")

\* Python's None, one value per type it stands in for
NoResponse == [id |-> "None", content |-> EmptyContent, price |-> 0]
NoRequest == [model |-> "", messages |-> <<>>, kwargs |-> <<>>]
NoInt == [some |-> FALSE, n |-> 0]
SomeInt(n) == [some |-> TRUE, n |-> n]

\* ---------------------------------------------------------------- bounds
\* run_completion calls started in one behaviour of SpecLLM
MaxCalls == 2

\* ------------------------------------------------------ program constants
MAX_RETRIES == 3
BASE_DEFAULT_RETRY_DELAY == 5

VARIABLES
    cache,               \* CACHE_DIR: cache key -> file (absent, truncated, or a pickled response)
    completion_history,  \* LLMClient.completion_history
    lpc,                 \* per thread: position inside run_completion
    frame,               \* per thread: the locals of its run_completion call
    ltrace,              \* per thread: what its current call has done so far (ghost)
    ret,                 \* per thread: how its current call ended
    ncalls               \* run_completion calls started so far

llmvars == <<cache, completion_history, lpc, frame, ltrace, ret, ncalls>>

VARIABLES
    page_status,   \* the page's "Joko Bot - Status" select in the document store ("" = not set)
    page_blocks,   \* the code blocks appended to the page, oldest first
    wpc,           \* per delivery: position inside notion_webhook
    request,       \* per delivery: the request it handles
    wl,            \* per delivery: the handler's locals
    wtrace,        \* per delivery: the calls this run has made, in order (ghost)
    resp           \* per delivery: the HTTP response

webvars == <<page_status, page_blocks, wpc, request, wl, wtrace, resp>>

VARIABLES
    merchants_df,  \* app.py's global merchants table: its rows, oldest first
    offers_df      \* app.py's global offers table: its rows, oldest first

tablevars == <<merchants_df, offers_df>>

vars == <<cache, completion_history, lpc, frame, ltrace, ret, ncalls,
          page_status, page_blocks, wpc, request, wl, wtrace, resp,
          merchants_df, offers_df>>

(***************************************************************************)
(*                    LLMClient  (src/src/llm/client.py)                   *)
(***************************************************************************)
Callers == {"t1", "t2"}

\* a cache file: absent, a whole pickle of a response, or a truncated pickle
NoFile == [state |-> "absent", data |-> NoResponse]
Corrupt == [state |-> "truncated", data |-> NoResponse]
Pickled(r) == [state |-> "pickle", data |-> r]

\* What litellm.completion can hand back: a ModelResponse with an id, the text of
\* choices[0].message.content, and the price completion_cost gives for it.
Responses ==
    { [id |-> "r1", content |-> Text("extraction", "compact"), price |-> 2],
      [id |-> "r2", content |-> Text("invalid", "raw"), price |-> 3] }

\* ---- requests and their cache key
\* kwargs is a dict: a sequence of <<key, value>> pairs in insertion order, keys
\* distinct. Keys are numbered in their string order.
Models == {"gemini", "gpt"}

MessageLists == { <<"system", "user">>, <<"user", "system">> }

KwargsDicts ==
    { << <<1, "x">>, <<2, "y">> >>,
      << <<2, "y">>, <<1, "x">> >>,
      << <<1, "y">>, <<2, "x">> >> }

Requests == [model : Models, messages : MessageLists, kwargs : KwargsDicts]

RECURSIVE InsertSorted(_, _)
InsertSorted(item, s) ==
    IF s = <<>> THEN <<item>>
    ELSE IF item[1] <= Head(s)[1] THEN <<item>> \o s
    ELSE <<Head(s)>> \o InsertSorted(item, Tail(s))

\* sorted, were the options left in the order they came in
sorted_AsGiven(items) == items

RECURSIVE sorted(_)
sorted(items) ==
    IF items = <<>> THEN <<>>
    ELSE InsertSorted(Head(items), sorted(Tail(items)))

\* generate_cache_key, were the messages hashed as a set
generate_cache_key_Unordered(model, messages, kwargs) ==
    <<model, { messages[i] : i \in 1..Len(messages) }, sorted(kwargs)>>

\* md5(pickle.dumps(stable_input)): the digest stands for the serialized input
generate_cache_key(model, messages, kwargs) ==
    <<model, messages, sorted(kwargs)>>

\* the requests the threads of SpecLLM make: two different cache keys
CallRequests ==
    { r \in Requests : r.model = "gemini" /\ r.kwargs = << <<1, "x">>, <<2, "y">> >> }

CacheKeys == { generate_cache_key(r.model, r.messages, r.kwargs) : r \in CallRequests }

\* ---- the retry delay a rate-limit error may carry
\* rle.response.json(): either it raises (no payload), or it is a dict whose
\* "details" is a list of items [type, retryDelay]; retryDelay is a string, here
\* a sequence of characters.
RetryInfo == "type.googleapis.com/google.rpc.RetryInfo"

RateLimitPayloads ==
    { [json_ok |-> FALSE, details |-> <<>>],
      [json_ok |-> TRUE,  details |-> <<>>],
      [json_ok |-> TRUE,  details |-> << [type |-> "ErrorInfo", retryDelay |-> <<>>],
                                         [type |-> RetryInfo, retryDelay |-> <<"7", "s">>] >>],
      [json_ok |-> TRUE,  details |-> << [type |-> RetryInfo, retryDelay |-> <<"7">>] >>],
      [json_ok |-> TRUE,  details |-> << [type |-> RetryInfo, retryDelay |-> <<"x", "s">>] >>],
      [json_ok |-> TRUE,  details |-> << [type |-> RetryInfo, retryDelay |-> <<"-", "3", "s">>] >>] }

Digits == {"0", "3", "7"}
DigitValue(ch) == CASE ch = "0" -> 0 [] ch = "3" -> 3 [] ch = "7" -> 7

RECURSIVE DigitsValue(_, _)
DigitsValue(s, acc) ==
    IF s = <<>> THEN acc ELSE DigitsValue(Tail(s), 10 * acc + DigitValue(Head(s)))

\* int(text): an optional sign and at least one digit; anything else raises
\* ValueError, given as NoInt
ParseInt(s) ==
    LET body == IF s # <<>> /\ Head(s) \in {"-", "+"} THEN Tail(s) ELSE s
        neg  == s # <<>> /\ Head(s) = "-"
    IN  IF body = <<>> \/ \E i \in 1..Len(body) : body[i] \notin Digits
        THEN NoInt
        ELSE IF neg THEN SomeInt(0 - DigitsValue(body, 0)) ELSE SomeInt(DigitsValue(body, 0))

endswith_s(s) == s # <<>> /\ s[Len(s)] = "s"

\* The scan of error_json["details"]: the first RetryInfo item whose retryDelay
\* ends in "s" decides; int() raising ends the scan with nothing found.
RECURSIVE ScanDetails(_)
ScanDetails(details) ==
    IF details = <<>> THEN NoInt
    ELSE LET item == Head(details)
         IN  IF item.type = RetryInfo /\ endswith_s(item.retryDelay)
             THEN ParseInt(SubSeq(item.retryDelay, 1, Len(item.retryDelay) - 1))
             ELSE ScanDetails(Tail(details))

ParseRetryDelay(payload) ==
    IF payload.json_ok THEN ScanDetails(payload.details) ELSE NoInt

RECURSIVE Pow2(_)
Pow2(n) == IF n = 0 THEN 1 ELSE 2 * Pow2(n - 1)

\* RetryAfterSeconds, were the fallback the base delay on every attempt
RetryAfterSeconds_Flat(payload, attempt) ==
    LET parsed == ParseRetryDelay(payload)
    IN  IF parsed.some THEN parsed.n ELSE BASE_DEFAULT_RETRY_DELAY

\* retry_after_seconds as the except-branch leaves it before time.sleep
RetryAfterSeconds(payload, attempt) ==
    LET parsed == ParseRetryDelay(payload)
    IN  IF parsed.some THEN parsed.n ELSE BASE_DEFAULT_RETRY_DELAY * Pow2(attempt)

\* RetryAgain, were the retry test off by one
RetryAgain_OneMore(attempt) == attempt < MAX_RETRIES

\* IsRateLimitError, were every exception of the provider retried
IsRateLimitError_Any(kind) == TRUE

\* ---- the retry loop's decisions
\* does the loop go round again after a rate-limit error on this attempt
RetryAgain(attempt) == attempt < MAX_RETRIES - 1

\* which except clause an exception of the provider call lands in
IsRateLimitError(kind) == kind = "rate_limit"

\* where the loop goes after an exception of kind `kind` on attempt `attempt`
AfterError(kind, attempt) ==
    IF IsRateLimitError(kind) /\ RetryAgain(attempt) THEN "retry" ELSE "break"

\* ---- the cost of a response (lines 132-140): litellm's completion_cost looks
\* the response's model up in its price map and raises for one it has no price
\* for; the except clause then leaves the cost at 0.0
Unpriced == {"r2"}

\* completion_cost, were the failed lookup to leave the response's own price as the cost
completion_cost_AsPriced(r) == r.price

completion_cost(r) == IF r.id \in Unpriced THEN 0 ELSE r.price

\* ---- the completion history
HistoryRecord(f) ==
    [ model        |-> f.req.model,
      success      |-> f.success,
      error        |-> f.error_message,
      response_id  |-> IF f.response # NoResponse /\ f.success THEN f.response.id ELSE "None",
      cost_dollars |-> f.cost,
      cached_result_used |-> FALSE ]

RECURSIVE get_completion_history_cost(_)
get_completion_history_cost(h) ==
    IF h = <<>> THEN 0 ELSE Head(h).cost_dollars + get_completion_history_cost(Tail(h))

NoReturn == [kind |-> "running", value |-> NoResponse, exc |-> "None"]
Return(v) == [kind |-> "return", value |-> v, exc |-> "None"]
Raise(e) == [kind |-> "raise", value |-> NoResponse, exc |-> e]

\* one entry of a thread's trace
Ev(ev, arg, n) == [ev |-> ev, arg |-> arg, n |-> n]

NoFrame ==
    [ req |-> NoRequest, cache_key |-> <<>>, attempt |-> 0, response |-> NoResponse,
      success |-> FALSE, error_message |-> "None", cost |-> 0,
      rle |-> <<>>, retry_after_seconds |-> 0 ]

LLMInit ==
    /\ cache = [k \in CacheKeys |-> NoFile]
    /\ completion_history = <<>>
    /\ lpc = [c \in Callers |-> "idle"]
    /\ frame = [c \in Callers |-> NoFrame]
    /\ ltrace = [c \in Callers |-> <<>>]
    /\ ret = [c \in Callers |-> NoReturn]
    /\ ncalls = 0

\* the call returns (or raises): its locals are gone
Leave(c, how) ==
    /\ ret' = [ret EXCEPT ![c] = how]
    /\ lpc' = [lpc EXCEPT ![c] = "done"]
    /\ frame' = [frame EXCEPT ![c] = NoFrame]

\* pickle.load of an existing cache file: a whole pickle loads, a truncated one raises
LoadsCleanly(file) == file.state = "pickle"

\* CacheHit, were a hit logged to the history like any other call
CacheHit_Logged(c, req, key) ==
    /\ ltrace' = [ltrace EXCEPT ![c] = <<Ev("cache_check", "hit", 0)>>]
    /\ completion_history' =
          Append(completion_history, HistoryRecord([NoFrame EXCEPT !.req = req, !.success = TRUE]))
    /\ Leave(c, Return(cache[key].data))
    /\ UNCHANGED cache

\* the cache check finds a file that loads (lines 91-99): it is returned at once
CacheHit(c, req, key) ==
    /\ ltrace' = [ltrace EXCEPT ![c] = <<Ev("cache_check", "hit", 0)>>]
    /\ Leave(c, Return(cache[key].data))
    /\ UNCHANGED <<cache, completion_history>>

\* no file, or a file whose load raised (lines 100-118): on to the provider
CacheMiss(c, req, key) ==
    /\ ltrace' = [ltrace EXCEPT ![c] = <<Ev("cache_check", "miss", 0)>>]
    /\ frame' = [frame EXCEPT ![c] = [NoFrame EXCEPT !.req = req, !.cache_key = key]]
    /\ lpc' = [lpc EXCEPT ![c] = "attempt"]
    /\ ret' = [ret EXCEPT ![c] = NoReturn]
    /\ UNCHANGED <<cache, completion_history>>

\* _generate_cache_key is called on a request (lines 51-65, as at line 86): the
\* caller holds the request and its key
GenerateCacheKey(c, req) ==
    /\ lpc[c] = "idle"
    /\ frame' = [frame EXCEPT ![c] =
                    [NoFrame EXCEPT !.req = req,
                                    !.cache_key = generate_cache_key(req.model, req.messages, req.kwargs)]]
    /\ UNCHANGED <<cache, completion_history, lpc, ltrace, ret, ncalls>>
    /\ UNCHANGED webvars
    /\ UNCHANGED tablevars

\* run_completion is called: the cache key and the cache check (lines 85-106);
\* exists(), open() and pickle.load() see the file as it is at that moment
EnterRunCompletion(c, req) ==
    /\ lpc[c] \in {"idle", "done"}
    /\ ncalls < MaxCalls
    /\ ncalls' = ncalls + 1
    /\ LET key == generate_cache_key(req.model, req.messages, req.kwargs)
       IN  IF cache[key] # NoFile /\ LoadsCleanly(cache[key])
           THEN CacheHit(c, req, key)
           ELSE CacheMiss(c, req, key)
    /\ UNCHANGED webvars
    /\ UNCHANGED tablevars

\* AppendHistory, were the cache written after a failed call as well
AppendHistory_AlwaysSaves(c, f, ev) ==
    /\ completion_history' = Append(completion_history, HistoryRecord(f))
    /\ ltrace' = [ltrace EXCEPT ![c] = @ \o <<ev, Ev("history", "", 0)>>]
    /\ frame' = [frame EXCEPT ![c] = f]
    /\ lpc' = [lpc EXCEPT ![c] = "save"]
    /\ ret' = ret

\* the loop is over with the locals f, after the event ev: the history append
\* (lines 222-243); with no response there is nothing to cache and the call
\* returns None (lines 246, 259)
AppendHistory(c, f, ev) ==
    /\ completion_history' = Append(completion_history, HistoryRecord(f))
    /\ ltrace' = [ltrace EXCEPT ![c] = @ \o <<ev, Ev("history", "", 0)>>]
    /\ IF f.success /\ f.response # NoResponse
       THEN /\ frame' = [frame EXCEPT ![c] = f]
            /\ lpc' = [lpc EXCEPT ![c] = "save"]
            /\ ret' = ret
       ELSE Leave(c, Return(f.response))

\* time.sleep(retry_after_seconds) returns (lines 198-200): the next attempt,
\* with response and success reset
Sleep(c, f, ev) ==
    /\ ltrace' = [ltrace EXCEPT ![c] = @ \o <<ev, Ev("sleep", "", f.retry_after_seconds)>>]
    /\ frame' = [frame EXCEPT ![c] = [f EXCEPT !.attempt = @ + 1,
                                                !.rle = <<>>,
                                                !.retry_after_seconds = 0]]
    /\ UNCHANGED <<lpc, completion_history, ret>>

\* time.sleep of a negative length raises ValueError inside the except clause:
\* nothing in run_completion catches it
SleepRaises(c, f, ev) ==
    /\ ltrace' = [ltrace EXCEPT ![c] = Append(@, ev)]
    /\ Leave(c, Raise("ValueError"))
    /\ UNCHANGED completion_history

\* the except clause goes for another attempt with the locals f, after the event ev
Retry(c, f, ev) ==
    IF f.retry_after_seconds >= 0 THEN Sleep(c, f, ev) ELSE SleepRaises(c, f, ev)

\* litellm.completion returns (lines 125-152); the break leads to the history append
ProviderSuccess(c) ==
    /\ lpc[c] = "attempt"
    /\ \E r \in Responses :
          AppendHistory(c, [frame[c] EXCEPT !.response = r,
                                            !.success = TRUE,
                                            !.cost = completion_cost(r)],
                        Ev("provider", "ok", 0))
    /\ UNCHANGED <<cache, ncalls>>
    /\ UNCHANGED webvars
    /\ UNCHANGED tablevars

\* litellm.completion raises a RateLimitError whose response carries the payload
\* p: the except clause of lines 154-208, its time.sleep included
RateLimited(c, p) ==
    /\ lpc[c] = "attempt"
    /\ LET f == [frame[c] EXCEPT
                    !.error_message = "RateLimitError",
                    !.rle = <<p>>,
                    !.retry_after_seconds =
                        IF RetryAgain(frame[c].attempt)
                        THEN RetryAfterSeconds(p, frame[c].attempt) ELSE 0,
                    !.success = FALSE,
                    !.response = NoResponse]
       IN  IF AfterError("rate_limit", frame[c].attempt) = "retry"
           THEN Retry(c, f, Ev("provider", "rate_limit", 0))
           ELSE AppendHistory(c, f, Ev("provider", "rate_limit", 0))
    /\ UNCHANGED <<cache, ncalls>>
    /\ UNCHANGED webvars
    /\ UNCHANGED tablevars

ProviderRateLimit(c) == \E p \in RateLimitPayloads : RateLimited(c, p)

\* litellm.completion raises anything else (lines 210-220)
ProviderOtherError(c) ==
    /\ lpc[c] = "attempt"
    /\ LET f == [frame[c] EXCEPT !.error_message = "OtherError",
                                 !.success = FALSE,
                                 !.response = NoResponse]
       IN  IF AfterError("error", frame[c].attempt) = "retry"
           THEN Retry(c, f, Ev("provider", "error", 0))
           ELSE AppendHistory(c, f, Ev("provider", "error", 0))
    /\ UNCHANGED <<cache, ncalls>>
    /\ UNCHANGED webvars
    /\ UNCHANGED tablevars

\* the cache write, first half (lines 246-248): open(cache_filepath, "wb") either
\* raises and leaves the file as it was (swallowed at 253, then return at 259), or
\* truncates the file, which other threads can see before the pickle is in it
OpenCacheFile(c) ==
    /\ lpc[c] = "save"
    /\ \E opened \in BOOLEAN :
          IF opened
          THEN /\ cache' = [cache EXCEPT ![frame[c].cache_key] = Corrupt]
               /\ lpc' = [lpc EXCEPT ![c] = "dump"]
               /\ UNCHANGED <<ltrace, ret, frame>>
          ELSE /\ ltrace' = [ltrace EXCEPT ![c] = Append(@, Ev("cache_write", "open_raises", 0))]
               /\ Leave(c, Return(frame[c].response))
               /\ UNCHANGED cache
    /\ UNCHANGED <<completion_history, ncalls>>
    /\ UNCHANGED webvars
    /\ UNCHANGED tablevars

\* SaveToCache, were a failed pickle.dump to fail the call
SaveToCache_FailsCall(c) ==
    /\ lpc[c] = "dump"
    /\ \E outcome \in {"written", "dump_raises"} :
          /\ cache' = [cache EXCEPT ![frame[c].cache_key] =
                          IF outcome = "written" THEN Pickled(frame[c].response) ELSE Corrupt]
          /\ ltrace' = [ltrace EXCEPT ![c] = Append(@, Ev("cache_write", outcome, 0))]
          /\ Leave(c, IF outcome = "written" THEN Return(frame[c].response) ELSE Return(NoResponse))
    /\ UNCHANGED <<completion_history, ncalls>>
    /\ UNCHANGED webvars
    /\ UNCHANGED tablevars

\* the cache write, second half (lines 249-259): pickle.dump and the close put the
\* whole pickle in the file, or raise (swallowed) and leave what got written
SaveToCache(c) ==
    /\ lpc[c] = "dump"
    /\ \E outcome \in {"written", "dump_raises"} :
          /\ cache' = [cache EXCEPT ![frame[c].cache_key] =
                          IF outcome = "written" THEN Pickled(frame[c].response) ELSE Corrupt]
          /\ ltrace' = [ltrace EXCEPT ![c] = Append(@, Ev("cache_write", outcome, 0))]
    /\ Leave(c, Return(frame[c].response))
    /\ UNCHANGED <<completion_history, ncalls>>
    /\ UNCHANGED webvars
    /\ UNCHANGED tablevars

(***************************************************************************)
(*                     notion_webhook  (src/app.py)                        *)
(***************************************************************************)
Deliveries == {"d1", "d2"}

\* os.getenv("NOTION_API_KEY"): the module refuses to load without it (line 34)
NOTION_API_KEY == "k_notion"

READY == "Ready for analysis"
IN_PROGRESS == "In progress"
DONE == "Done"
ERROR_PROCESSING == "Error Processing"
InitialStatuses == {READY, IN_PROGRESS, DONE, ERROR_PROCESSING, "Archived", ""}

\* ---- strings of the signature check: sequences of characters
NonAscii == {"e_acute"}

\* hmac.new(key, message, sha256).hexdigest(): the digest stands for its input,
\* so two digests are equal exactly when key and message are
hexdigest(key, message) == <<key>> \o message

RECURSIVE LastIndexOf(_, _)
LastIndexOf(s, ch) ==
    IF s = <<>> THEN 0
    ELSE IF s[Len(s)] = ch THEN Len(s)
    ELSE LastIndexOf(SubSeq(s, 1, Len(s) - 1), ch)

\* signature.split("=")[-1]
split_eq_last(s) == SubSeq(s, LastIndexOf(s, "=") + 1, Len(s))

\* compare_digest, were only the lengths compared
compare_digest_LengthOnly(a, b) ==
    IF Len(a) = Len(b) THEN "equal" ELSE "differ"

\* hmac.compare_digest on two str: TypeError when either holds a non-ASCII character
compare_digest(a, b) ==
    IF \E i \in 1..Len(a) : a[i] \in NonAscii THEN "TypeError"
    ELSE IF \E i \in 1..Len(b) : b[i] \in NonAscii THEN "TypeError"
    ELSE IF a = b THEN "equal" ELSE "differ"

\* both V2 headers present (line 755); an empty header counts as absent
UsesV2(h) == h.sig_v2 # <<>> /\ h.timestamp # <<>>

\* `signature` as the check reads it (lines 752-760)
SignatureOf(h) == IF UsesV2(h) THEN h.sig_v2 ELSE h.sig_v1

\* `message` (lines 762, 766)
MessageOf(h, raw) == IF UsesV2(h) THEN h.timestamp \o <<":">> \o raw ELSE raw

\* lines 752-785: what the check does with the headers h and the body raw:
\* "pass", or the abort / exception that ends the request; ops are the local
\* computations made on the way
\* VerifySignature, were the secret fetched before the headers are looked at
VerifySignature_SecretFirst(h, raw) ==
    IF SignatureOf(h) = <<>>
    THEN [result |-> "missing", code |-> 400, ops |-> <<"secret">>]
    ELSE IF NOTION_API_KEY = ""
    THEN [result |-> "not_configured", code |-> 500, ops |-> <<"secret">>]
    ELSE LET calculated == hexdigest(NOTION_API_KEY, MessageOf(h, raw))
             actual     == split_eq_last(SignatureOf(h))
             cmp        == compare_digest(calculated, actual)
         IN  CASE cmp = "equal"     -> [result |-> "pass", code |-> 200, ops |-> <<"secret", "hmac">>]
               [] cmp = "differ"    -> [result |-> "invalid", code |-> 401, ops |-> <<"secret", "hmac">>]
               [] cmp = "TypeError" -> [result |-> "TypeError", code |-> 500, ops |-> <<"secret", "hmac">>]

VerifySignature(h, raw) ==
    IF SignatureOf(h) = <<>>
    THEN [result |-> "missing", code |-> 400, ops |-> <<>>]
    ELSE IF NOTION_API_KEY = ""
    THEN [result |-> "not_configured", code |-> 500, ops |-> <<"secret">>]
    ELSE LET calculated == hexdigest(NOTION_API_KEY, MessageOf(h, raw))
             actual     == split_eq_last(SignatureOf(h))
             cmp        == compare_digest(calculated, actual)
         IN  CASE cmp = "equal"     -> [result |-> "pass", code |-> 200, ops |-> <<"secret", "hmac">>]
               [] cmp = "differ"    -> [result |-> "invalid", code |-> 401, ops |-> <<"secret", "hmac">>]
               [] cmp = "TypeError" -> [result |-> "TypeError", code |-> 500, ops |-> <<"secret", "hmac">>]

\* ---- request bodies: the raw bytes and the JSON they spell
\* kind "invalid" : get_json gives nothing usable (not JSON, or an empty object)
\* "" stands for a key that is absent; the value under "event" is an object with
\* an id, an object without one (as the default {} is), or not an object at all
NoEventKey == [is_object |-> TRUE, id |-> ""]
EventObject(id) == [is_object |-> TRUE, id |-> id]
EventScalar == [is_object |-> FALSE, id |-> ""]

Body(raw, kind, challenge, type, event, entity_id, entity_type) ==
    [ raw |-> raw, kind |-> kind, challenge |-> challenge, type |-> type,
      event |-> event, entity_id |-> entity_id, entity_type |-> entity_type ]

Bodies ==
    { Body(<<"b_bad">>,       "invalid",            "",   "", NoEventKey, "", ""),
      Body(<<"b_challenge">>, "challenge",          "c1", "", NoEventKey, "", ""),
      Body(<<"b_token">>,     "verification_token", "v1", "", NoEventKey, "", ""),
      Body(<<"b_page">>,      "event", "", "page.content_updated", NoEventKey, "p1", "page"),
      Body(<<"b_event_id">>,  "event", "", "page.created",         EventObject("p1"), "", ""),
      Body(<<"b_no_id">>,     "event", "", "page.updated",         NoEventKey, "", "page"),
      Body(<<"b_comment">>,   "event", "", "comment.created",      NoEventKey, "p1", "database"),
      Body(<<"b_subpage">>,   "event", "", "comment.created",      NoEventKey, "p1", "subpage"),
      Body(<<"b_event_null">>, "event", "", "page.updated",        EventScalar, "p1", "page"),
      Body(<<"b_comment_null">>, "event", "", "comment.created",   EventScalar, "p1", "database") }

\* "page" in entity type (line 805): a substring test
ContainsPage(t) == t \in {"page", "subpage"}

\* data.get("event", {}).get("id") (line 794) needs the value under "event" to
\* have a get method: on null, a string or a number it raises AttributeError
ResolveRaises(data) == ~data.event.is_object

\* lines 793-798
PageIdOf(data) == IF data.event.id # "" THEN data.event.id ELSE data.entity_id

\* lines 801-806
IsPageEvent(data) ==
    /\ PageIdOf(data) # ""
    /\ \/ data.type \in {"page.created", "page.updated", "page.content_updated"}
       \/ ContainsPage(data.entity_type)

\* ---- signature headers
Headers(sig_v2, timestamp, sig_v1) ==
    [sig_v2 |-> sig_v2, timestamp |-> timestamp, sig_v1 |-> sig_v1]

\* s with its i-th character replaced by ch
Altered(s, i, ch) == [s EXCEPT ![i] = ch]

SignedV1(raw) == hexdigest(NOTION_API_KEY, raw)
SignedV2(ts, raw) == <<"v1", "=">> \o hexdigest(NOTION_API_KEY, ts \o <<":">> \o raw)

Timestamps == {<<"t1">>}

\* what a sender may put in the V1 header for the body raw: nothing, the digest,
\* the digest behind a scheme prefix, a digest under another key, the V2 digest,
\* the digest with one character altered
SigV1Values(raw) ==
    { <<>>, SignedV1(raw), <<"sha256", "=">> \o SignedV1(raw), hexdigest("k_other", raw) }
    \cup { SignedV2(ts, raw) : ts \in Timestamps }
    \cup { Altered(SignedV1(raw), i, ch) : i \in 1..Len(SignedV1(raw)), ch \in {"0", "e_acute"} }

\* and in the V2 header, sent with the timestamp ts
SigV2Values(ts, raw) ==
    { <<>>, SignedV2(ts, raw), hexdigest(NOTION_API_KEY, ts \o <<":">> \o raw),
      <<"v1", "=">> \o SignedV1(raw), <<"v1", "=">> \o hexdigest("k_other", ts \o <<":">> \o raw) }
    \cup { Altered(SignedV2(ts, raw), 2 + i, ch) :
              i \in 1..(Len(SignedV2(ts, raw)) - 2), ch \in {"0", "e_acute"} }

Request(body, headers) == [body |-> body, headers |-> headers]
NoRequestYet == Request(Body(<<>>, "", "", "", NoEventKey, "", ""), Headers(<<>>, <<>>, <<>>))

\* every request of the bounded universe
AllRequests ==
    UNION { { Request(b, Headers(s2, ts, s1)) :
                s2 \in UNION { SigV2Values(t, b.raw) : t \in Timestamps },
                s1 \in SigV1Values(b.raw) } :
            b \in Bodies, ts \in Timestamps \cup {<<>>} }

\* the requests delivered in Spec, where two deliveries run side by side
DeliveredRequests ==
    LET page == CHOOSE b \in Bodies : b.raw = <<"b_page">>
        chal == CHOOSE b \in Bodies : b.raw = <<"b_challenge">>
        noid == CHOOSE b \in Bodies : b.raw = <<"b_no_id">>
        comm == CHOOSE b \in Bodies : b.raw = <<"b_comment">>
        null == CHOOSE b \in Bodies : b.raw = <<"b_event_null">>
    IN  { Request(page, Headers(SignedV2(<<"t1">>, page.raw), <<"t1">>, <<>>)),
          Request(page, Headers(<<>>, <<>>, SignedV1(page.raw))),
          Request(page, Headers(<<>>, <<>>, Altered(SignedV1(page.raw), 2, "0"))),
          Request(page, Headers(<<>>, <<>>, <<>>)),
          Request(chal, Headers(<<>>, <<>>, <<>>)),
          Request(noid, Headers(<<>>, <<>>, SignedV1(noid.raw))),
          Request(comm, Headers(<<>>, <<>>, SignedV1(comm.raw))),
          Request(null, Headers(<<>>, <<>>, SignedV1(null.raw))) }

\* ---- completion texts and json
\* json.loads(text): the value, or JSONDecodeError
json_loads(text) ==
    IF text.json = "invalid" THEN [ok |-> FALSE, value |-> ""]
    ELSE [ok |-> TRUE, value |-> text.json]

\* json.dumps(value, indent=2)
json_dumps_indent2(value) == Text(value, "indent2")

\* what llm_client.run_completion hands the handler (client.py lines 67-259): a
\* response, None, or (time.sleep of a negative delay) an exception
CompletionOutcomes ==
    { Raise("ValueError"), Return(NoResponse) }
    \cup { Return([id |-> "r", content |-> t, price |-> 2]) :
             t \in { Text("extraction", "compact"), Text("other_shape", "compact"),
                     Text("invalid", "raw"), EmptyContent } }

\* one call of a collaborator, as the run's trace keeps it: what was called, the
\* argument or result that matters, and how the call ended ("ok" or how it raised)
Call(op, arg, out) == [op |-> op, arg |-> arg, out |-> out]

\* How a PATCH of the document store (update_page_properties, append_block_children,
\* client.py 120-122 and 140-142) can end: "ok"; "raises", the request failed and
\* nothing changed; "json_error", the store applied the change and response.json()
\* raised on the answer, a JSONDecodeError
PatchOutcomes == {"ok", "raises", "json_error"}
Applied(out) == out # "raises"

\* ---- NotionClient.markdown_to_notion_blocks and notion_blocks_to_markdown
\* a str is the sequence of its characters
NL == "\n"
SP == " "
TAB == "\t"
Whitespace == {SP, TAB, NL}

\* "\n".join(lines)
RECURSIVE join_newline(_)
join_newline(lines) ==
    IF lines = <<>> THEN <<>>
    ELSE IF Len(lines) = 1 THEN lines[1]
    ELSE lines[1] \o <<NL>> \o join_newline(Tail(lines))

\* markdown.split("\n"): always at least one piece
RECURSIVE split_newline(_)
split_newline(str) ==
    IF \A i \in 1..Len(str) : str[i] # NL
    THEN <<str>>
    ELSE LET i == CHOOSE j \in 1..Len(str) : str[j] = NL /\ \A k \in 1..(j - 1) : str[k] # NL
         IN  <<SubSeq(str, 1, i - 1)>> \o split_newline(SubSeq(str, i + 1, Len(str)))

\* line.strip() leaves nothing: the line holds whitespace only
strip_is_empty(line) == \A i \in 1..Len(line) : line[i] \in Whitespace

\* line.startswith(prefix)
startswith(line, prefix) ==
    Len(line) >= Len(prefix) /\ SubSeq(line, 1, Len(prefix)) = prefix

\* a rich text run: a text run holds its content under "text", any other run
\* (a mention, an equation) has no "text" entry
TextRun(content) == [type |-> "text", content |-> content]
Mention == [type |-> "mention", content |-> <<>>]

\* {"object": "block", "type": t, t: {"rich_text": rich_text}}
Block(type, rich_text) == [type |-> type, rich_text |-> rich_text]

\* the block a line gives, were the prefix left in the text of a heading or bullet
block_of_line_KeepPrefix(line) ==
    IF startswith(line, <<"#", SP>>) THEN Block("heading_1", <<TextRun(line)>>)
    ELSE IF startswith(line, <<"#", "#", SP>>) THEN Block("heading_2", <<TextRun(line)>>)
    ELSE IF startswith(line, <<"#", "#", "#", SP>>) THEN Block("heading_3", <<TextRun(line)>>)
    ELSE IF startswith(line, <<"-", SP>>) THEN Block("bulleted_list_item", <<TextRun(line)>>)
    ELSE Block("paragraph", <<TextRun(line)>>)

\* lines 193-250: the block one line gives
block_of_line(line) ==
    IF startswith(line, <<"#", SP>>)
    THEN Block("heading_1", <<TextRun(SubSeq(line, 3, Len(line)))>>)
    ELSE IF startswith(line, <<"#", "#", SP>>)
    THEN Block("heading_2", <<TextRun(SubSeq(line, 4, Len(line)))>>)
    ELSE IF startswith(line, <<"#", "#", "#", SP>>)
    THEN Block("heading_3", <<TextRun(SubSeq(line, 5, Len(line)))>>)
    ELSE IF startswith(line, <<"-", SP>>)
    THEN Block("bulleted_list_item", <<TextRun(SubSeq(line, 3, Len(line)))>>)
    ELSE Block("paragraph", <<TextRun(line)>>)

\* lines 189-250: the loop over the lines
RECURSIVE blocks_of_lines(_)
blocks_of_lines(lines) ==
    IF lines = <<>> THEN <<>>
    ELSE IF strip_is_empty(lines[1]) THEN blocks_of_lines(Tail(lines))
    ELSE <<block_of_line(lines[1])>> \o blocks_of_lines(Tail(lines))

\* lines 175-252
markdown_to_notion_blocks(markdown) == blocks_of_lines(split_newline(markdown))

\* rt.get("text", {}).get("content", "") (line 292)
content_of_run(rt) == IF rt.type = "text" THEN rt.content ELSE <<>>

\* "".join(... for rt in rich_text), were the runs set apart by a space
RECURSIVE text_content_Spaced(_)
text_content_Spaced(rich_text) ==
    IF rich_text = <<>> THEN <<>>
    ELSE IF Len(rich_text) = 1 THEN content_of_run(rich_text[1])
    ELSE content_of_run(rich_text[1]) \o <<SP>> \o text_content_Spaced(Tail(rich_text))

\* "".join(... for rt in rich_text) (lines 291-293)
RECURSIVE text_content(_)
text_content(rich_text) ==
    IF rich_text = <<>> THEN <<>>
    ELSE content_of_run(rich_text[1]) \o text_content(Tail(rich_text))

\* lines 273-288: the prefix of a block type the converter knows
PrefixOf(block_type) ==
    CASE block_type = "paragraph" -> <<>>
      [] block_type = "heading_1" -> <<"#", SP>>
      [] block_type = "heading_2" -> <<"#", "#", SP>>
      [] block_type = "heading_3" -> <<"#", "#", "#", SP>>
      [] block_type = "bulleted_list_item" -> <<"-", SP>>

SupportedTypes == {"paragraph", "heading_1", "heading_2", "heading_3", "bulleted_list_item"}

\* lines 267-297: the loop over the blocks; a block with no type, with a type
\* the converter does not know, or with an empty rich_text list adds no line
RECURSIVE markdown_lines(_)
markdown_lines(blocks) ==
    IF blocks = <<>> THEN <<>>
    ELSE LET block == blocks[1]
         IN  IF block.type \notin SupportedTypes \/ block.rich_text = <<>>
             THEN markdown_lines(Tail(blocks))
             ELSE <<PrefixOf(block.type) \o text_content(block.rich_text)>>
                      \o markdown_lines(Tail(blocks))

\* lines 254-299
notion_blocks_to_markdown(blocks) == join_newline(markdown_lines(blocks))

\* ---- the inputs the converters are applied to
MaxLines == 3
MaxBlocks == 2

MarkdownLines ==
    { <<>>, <<SP>>, <<SP, TAB>>, <<"a">>,
      <<"#", SP, "a">>, <<"#", "#", SP, "a">>, <<"#", "#", "#", SP, "a">>,
      <<"-", SP, "a">>, <<"#", "#", "#", "#", SP, "a">>, <<"#", "a">>,
      <<SP, "#", SP, "a">>, <<"#", SP>>, <<"-", SP, "#", SP, "a">> }

Markdowns ==
    { join_newline(ls) : ls \in UNION { [1..n -> MarkdownLines] : n \in 1..MaxLines } }

RichTexts ==
    { <<>>,
      <<TextRun(<<"a">>)>>,
      <<TextRun(<<"a">>), TextRun(<<"b">>)>>,
      <<TextRun(<<"a">>), Mention>>,
      <<TextRun(<<"#", SP, "a">>)>>,
      <<TextRun(<<"-", SP, "a">>)>>,
      <<TextRun(<<"a", NL, "b">>)>>,
      <<TextRun(<<SP, "a">>)>>,
      <<TextRun(<<SP>>)>>,
      <<TextRun(<<>>)>> }

\* "divider" is a type the converter does not know, "" a block without a type
BlockTypes == SupportedTypes \cup {"divider", ""}

Blocks == { Block(t, rt) : t \in BlockTypes, rt \in RichTexts }

BlockLists == UNION { [1..n -> Blocks] : n \in 0..MaxBlocks }

\* a caller's conversion: what it gave, what it got, and what
\* markdown_to_notion_blocks made of the markdown it got
NoConversion == [op |-> "", markdown |-> <<>>, blocks |-> <<>>, back |-> <<>>]

NoLocals == [page_id |-> "", current_status |-> "", parsed_json |-> "", conv |-> NoConversion]

NoResp == [code |-> 0, kind |-> "none", value |-> ""]
HttpError(code, why) == [code |-> code, kind |-> "error", value |-> why]
\* jsonify({"received": True, "processed_page_id": page_id if page_id else None})
Acknowledgment(page_id) == [code |-> 200, kind |-> "received", value |-> page_id]

WebInit ==
    /\ page_status \in InitialStatuses
    /\ page_blocks = <<>>
    /\ wpc = [d \in Deliveries |-> "idle"]
    /\ request = [d \in Deliveries |-> NoRequestYet]
    /\ wl = [d \in Deliveries |-> NoLocals]
    /\ wtrace = [d \in Deliveries |-> <<>>]
    /\ resp = [d \in Deliveries |-> NoResp]

\* a POST /notion-webhook arrives, one of `pool`, and gets its thread
Receive(d, pool) ==
    /\ wpc[d] = "idle"
    /\ \E r \in pool : request' = [request EXCEPT ![d] = r]
    /\ wpc' = [wpc EXCEPT ![d] = "parse"]
    /\ UNCHANGED <<page_status, page_blocks, wl, wtrace, resp>>
    /\ UNCHANGED llmvars
    /\ UNCHANGED tablevars

\* the handler returns `response` and the request is over
Respond(d, response) ==
    /\ resp' = [resp EXCEPT ![d] = response]
    /\ wpc' = [wpc EXCEPT ![d] = "responded"]

\* the handler moves on to `next`; at "ack" it returns the acknowledgment (lines 940-942)
Goto(d, next, page_id) ==
    IF next = "ack"
    THEN Respond(d, Acknowledgment(page_id))
    ELSE /\ wpc' = [wpc EXCEPT ![d] = next]
         /\ resp' = resp

\* Handshake, were the handshake bodies held to the signature check like any other
Handshake_Signed(d) ==
    /\ wpc[d] = "parse"
    /\ LET data == request[d].body
       IN  CASE data.kind = "invalid" -> Respond(d, HttpError(400, "Request body must be JSON"))
             [] OTHER -> /\ wpc' = [wpc EXCEPT ![d] = "verify"]
                         /\ resp' = resp
    /\ UNCHANGED <<page_status, page_blocks, request, wl, wtrace>>
    /\ UNCHANGED llmvars
    /\ UNCHANGED tablevars

\* lines 737-749: body parsing and the two handshakes
Handshake(d) ==
    /\ wpc[d] = "parse"
    /\ LET data == request[d].body
       IN  CASE data.kind = "invalid" -> Respond(d, HttpError(400, "Request body must be JSON"))
             [] data.kind = "challenge" -> Respond(d, [code |-> 200, kind |-> "challenge", value |-> data.challenge])
             [] data.kind = "verification_token" -> Respond(d, [code |-> 200, kind |-> "empty", value |-> ""])
             [] OTHER -> /\ wpc' = [wpc EXCEPT ![d] = "verify"]
                         /\ resp' = resp
    /\ UNCHANGED <<page_status, page_blocks, request, wl, wtrace>>
    /\ UNCHANGED llmvars
    /\ UNCHANGED tablevars

\* lines 752-785: the signature check
Verify(d) ==
    /\ wpc[d] = "verify"
    /\ LET v == VerifySignature(request[d].headers, request[d].body.raw)
       IN  /\ wtrace' = [wtrace EXCEPT ![d] = @ \o [i \in 1..Len(v.ops) |-> Call(v.ops[i], "", "ok")]]
           /\ IF v.result = "pass"
              THEN /\ wpc' = [wpc EXCEPT ![d] = "resolve"]
                   /\ resp' = resp
              ELSE Respond(d, HttpError(v.code, v.result))
    /\ UNCHANGED <<page_status, page_blocks, request, wl>>
    /\ UNCHANGED llmvars
    /\ UNCHANGED tablevars

\* lines 793-807 and 936-942: the page id and whether this is a page event; an
\* exception here is outside the try of line 816 and ends the request with a 500
Resolve(d) ==
    /\ wpc[d] = "resolve"
    /\ LET data == request[d].body
       IN  IF ResolveRaises(data)
           THEN /\ Respond(d, HttpError(500, "AttributeError"))
                /\ wl' = wl
           ELSE /\ wl' = [wl EXCEPT ![d].page_id = PageIdOf(data)]
                /\ Goto(d, IF IsPageEvent(data) THEN "read_status" ELSE "ack", PageIdOf(data))
    /\ UNCHANGED <<page_status, page_blocks, request, wtrace>>
    /\ UNCHANGED llmvars
    /\ UNCHANGED tablevars

\* Eligible, were only finished pages skipped
Eligible_UnlessDone(current_status) == current_status # DONE

\* Eligible, were every page that has a status processed
Eligible_AnyStatus(current_status) == current_status # ""

\* the branch on current_status (lines 812, 928-935)
Eligible(current_status) == current_status = READY

\* ReadStatus, were a page whose status cannot be read taken for a queued one
ReadStatus_AssumesReady(d) ==
    /\ wpc[d] = "read_status"
    /\ \E ok \in BOOLEAN :
          LET current_status == IF ok THEN page_status ELSE READY
          IN  /\ wl' = [wl EXCEPT ![d].current_status = current_status]
              /\ wtrace' = [wtrace EXCEPT ![d] =
                               Append(@, Call("get_page_status", IF ok THEN page_status ELSE "",
                                              IF ok THEN "ok" ELSE "raises"))]
              /\ Goto(d, IF Eligible(current_status) THEN "set_in_progress" ELSE "ack", wl[d].page_id)
    /\ UNCHANGED <<page_status, page_blocks, request>>
    /\ UNCHANGED llmvars
    /\ UNCHANGED tablevars

\* ReadStatus, were the read to see a claim another delivery has laid on the page
ReadStatus_Claimed(d) ==
    /\ wpc[d] = "read_status"
    /\ \E ok \in BOOLEAN :
          LET claimed == \E e \in Deliveries \ {d} : wpc[e] = "set_in_progress"
              current_status == IF ~ok THEN "" ELSE IF claimed THEN IN_PROGRESS ELSE page_status
          IN  /\ wl' = [wl EXCEPT ![d].current_status = current_status]
              /\ wtrace' = [wtrace EXCEPT ![d] =
                               Append(@, Call("get_page_status", current_status, IF ok THEN "ok" ELSE "raises"))]
              /\ Goto(d, IF Eligible(current_status) THEN "set_in_progress" ELSE "ack", wl[d].page_id)
    /\ UNCHANGED <<page_status, page_blocks, request>>
    /\ UNCHANGED llmvars
    /\ UNCHANGED tablevars

\* ReadStatus, were the status taken from a snapshot made when the page was queued
ReadStatus_Stale(d) ==
    /\ wpc[d] = "read_status"
    /\ \E ok \in BOOLEAN :
          LET current_status == IF ok THEN READY ELSE ""
          IN  /\ wl' = [wl EXCEPT ![d].current_status = current_status]
              /\ wtrace' = [wtrace EXCEPT ![d] =
                               Append(@, Call("get_page_status", current_status, IF ok THEN "ok" ELSE "raises"))]
              /\ Goto(d, IF Eligible(current_status) THEN "set_in_progress" ELSE "ack", wl[d].page_id)
    /\ UNCHANGED <<page_status, page_blocks, request>>
    /\ UNCHANGED llmvars
    /\ UNCHANGED tablevars

\* line 809 with NotionClient.get_page_status (client.py 455-480): one GET of the
\* page; when it raises, get_page_status swallows it and gives None
ReadStatus(d) ==
    /\ wpc[d] = "read_status"
    /\ \E ok \in BOOLEAN :
          LET current_status == IF ok THEN page_status ELSE ""
          IN  /\ wl' = [wl EXCEPT ![d].current_status = current_status]
              /\ wtrace' = [wtrace EXCEPT ![d] =
                               Append(@, Call("get_page_status", current_status, IF ok THEN "ok" ELSE "raises"))]
              /\ Goto(d, IF Eligible(current_status) THEN "set_in_progress" ELSE "ack", wl[d].page_id)
    /\ UNCHANGED <<page_status, page_blocks, request>>
    /\ UNCHANGED llmvars
    /\ UNCHANGED tablevars

\* notion_client.update_page_status(page_id, new_status) at position `at`
\* (client.py 482-500, 124-142): an unconditional overwrite; the handler goes to
\* on_ok, or where an exception, or a JSONDecodeError, takes it from there
StatusWrite(d, at, new_status, on_ok, on_raise, on_json_error) ==
    /\ wpc[d] = at
    /\ \E out \in PatchOutcomes :
          /\ page_status' = IF Applied(out) THEN new_status ELSE page_status
          /\ wtrace' = [wtrace EXCEPT ![d] = Append(@, Call("update_page_status", new_status, out))]
          /\ Goto(d, CASE out = "ok" -> on_ok
                       [] out = "raises" -> on_raise
                       [] out = "json_error" -> on_json_error,
                  wl[d].page_id)
    /\ UNCHANGED <<page_blocks, request, wl>>
    /\ UNCHANGED llmvars
    /\ UNCHANGED tablevars

\* line 818
SetInProgress(d) == StatusWrite(d, "set_in_progress", IN_PROGRESS, "get_page", "except", "except")

\* GetPage, were the page fetch made outside the try of line 816
GetPage_Unguarded(d) ==
    /\ wpc[d] = "get_page"
    /\ \E out \in {"ok", "raises"} :
          /\ wtrace' = [wtrace EXCEPT ![d] = Append(@, Call("get_page", "", out))]
          /\ IF out = "ok"
             THEN Goto(d, "get_page_content", wl[d].page_id)
             ELSE Respond(d, HttpError(500, "HTTPError"))
    /\ UNCHANGED <<page_status, page_blocks, request, wl>>
    /\ UNCHANGED llmvars
    /\ UNCHANGED tablevars

\* line 822
GetPage(d) ==
    /\ wpc[d] = "get_page"
    /\ \E out \in {"ok", "raises"} :
          /\ wtrace' = [wtrace EXCEPT ![d] = Append(@, Call("get_page", "", out))]
          /\ Goto(d, IF out = "ok" THEN "get_page_content" ELSE "except", wl[d].page_id)
    /\ UNCHANGED <<page_status, page_blocks, request, wl>>
    /\ UNCHANGED llmvars
    /\ UNCHANGED tablevars

\* lines 823-826: the content fetch, then notion_blocks_to_markdown, which raises
\* on blocks that are not well formed ("malformed": fetched, conversion raised)
GetPageContent(d) ==
    /\ wpc[d] = "get_page_content"
    /\ \E out \in {"ok", "malformed", "raises"} :
          /\ wtrace' = [wtrace EXCEPT ![d] = Append(@, Call("get_page_content", "", out))]
          /\ Goto(d, IF out = "ok" THEN "run_completion" ELSE "except", wl[d].page_id)
    /\ UNCHANGED <<page_status, page_blocks, request, wl>>
    /\ UNCHANGED llmvars
    /\ UNCHANGED tablevars

\* AfterCompletion, were a missing result or missing content only logged
AfterCompletion_SilentOnNone(out) ==
    IF out.kind = "raise" THEN "except"
    ELSE IF out.value = NoResponse \/ out.value.content = EmptyContent THEN "ack"
    ELSE IF json_loads(out.value.content).ok THEN "append"
    ELSE "bad_json"

\* AfterCompletion, were the text appended without json.loads
AfterCompletion_NoParse(out) ==
    IF out.kind = "raise" THEN "except"
    ELSE IF out.value = NoResponse \/ out.value.content = EmptyContent THEN "no_content"
    ELSE "append"

\* where the handler goes with what run_completion gave (lines 884-893, 903, 911)
AfterCompletion(out) ==
    IF out.kind = "raise" THEN "except"
    ELSE IF out.value = NoResponse \/ out.value.content = EmptyContent THEN "no_content"
    ELSE IF json_loads(out.value.content).ok THEN "append"
    ELSE "bad_json"

\* lines 878-893
RunCompletion(d) ==
    /\ wpc[d] = "run_completion"
    /\ \E out \in CompletionOutcomes :
          /\ wtrace' = [wtrace EXCEPT ![d] =
                           Append(@, Call("run_completion",
                                          IF out.kind = "raise" \/ out.value = NoResponse
                                          THEN "" ELSE out.value.content.json,
                                          CASE out.kind = "raise" -> "raises"
                                            [] out.value = NoResponse -> "none"
                                            [] OTHER -> "ok"))]
          /\ wl' = [wl EXCEPT ![d].parsed_json =
                       IF AfterCompletion(out) = "append"
                       THEN json_loads(out.value.content).value ELSE ""]
          /\ Goto(d, AfterCompletion(out), wl[d].page_id)
    /\ UNCHANGED <<page_status, page_blocks, request>>
    /\ UNCHANGED llmvars
    /\ UNCHANGED tablevars

\* AppendCodeBlock, were a failed append only logged
AppendCodeBlock_IgnoresFailure(d) ==
    /\ wpc[d] = "append"
    /\ \E out \in PatchOutcomes :
          /\ page_blocks' = IF Applied(out)
                            THEN Append(page_blocks, json_dumps_indent2(wl[d].parsed_json))
                            ELSE page_blocks
          /\ wtrace' = [wtrace EXCEPT ![d] =
                           Append(@, Call("append_code_block_to_page", wl[d].parsed_json, out))]
          /\ Goto(d, "set_done", wl[d].page_id)
    /\ UNCHANGED <<page_status, request, wl>>
    /\ UNCHANGED llmvars
    /\ UNCHANGED tablevars

\* AppendCodeBlock, were a failed append tried again
AppendCodeBlock_Retries(d) ==
    /\ wpc[d] = "append"
    /\ \E out \in PatchOutcomes :
          /\ page_blocks' = IF Applied(out)
                            THEN Append(page_blocks, json_dumps_indent2(wl[d].parsed_json))
                            ELSE page_blocks
          /\ wtrace' = [wtrace EXCEPT ![d] =
                           Append(@, Call("append_code_block_to_page", wl[d].parsed_json, out))]
          /\ Goto(d, CASE out = "ok" -> "set_done"
                       [] out = "raises" -> "except"
                       [] out = "json_error" -> IF \A i \in 1..Len(wtrace[d]) : wtrace[d][i].op # "append_code_block_to_page"
                                                THEN "append" ELSE "bad_json",
                  wl[d].page_id)
    /\ UNCHANGED <<page_status, request, wl>>
    /\ UNCHANGED llmvars
    /\ UNCHANGED tablevars

\* AppendCodeBlock, were the handler to return after the append
AppendCodeBlock_NoDone(d) ==
    /\ wpc[d] = "append"
    /\ \E out \in PatchOutcomes :
          /\ page_blocks' = IF Applied(out)
                            THEN Append(page_blocks, json_dumps_indent2(wl[d].parsed_json))
                            ELSE page_blocks
          /\ wtrace' = [wtrace EXCEPT ![d] =
                           Append(@, Call("append_code_block_to_page", wl[d].parsed_json, out))]
          /\ Goto(d, CASE out = "ok" -> "ack"
                       [] out = "raises" -> "except"
                       [] out = "json_error" -> "bad_json",
                  wl[d].page_id)
    /\ UNCHANGED <<page_status, request, wl>>
    /\ UNCHANGED llmvars
    /\ UNCHANGED tablevars

\* lines 895-897 (client.py 502-524, 104-122); a JSONDecodeError out of it is
\* caught by the clause of line 903
AppendCodeBlock(d) ==
    /\ wpc[d] = "append"
    /\ \E out \in PatchOutcomes :
          /\ page_blocks' = IF Applied(out)
                            THEN Append(page_blocks, json_dumps_indent2(wl[d].parsed_json))
                            ELSE page_blocks
          /\ wtrace' = [wtrace EXCEPT ![d] =
                           Append(@, Call("append_code_block_to_page", wl[d].parsed_json, out))]
          /\ Goto(d, CASE out = "ok" -> "set_done"
                       [] out = "raises" -> "except"
                       [] out = "json_error" -> "bad_json",
                  wl[d].page_id)
    /\ UNCHANGED <<page_status, request, wl>>
    /\ UNCHANGED llmvars
    /\ UNCHANGED tablevars

\* line 901; a JSONDecodeError out of it is caught by the clause of line 903
SetDone(d) == StatusWrite(d, "set_done", DONE, "ack", "except", "bad_json")

\* lines 903-910: the JSONDecodeError clause
SetErrorBadJson(d) == StatusWrite(d, "bad_json", ERROR_PROCESSING, "ack", "except", "except")

\* SetErrorNoContent, were a run without content to put the page back in the queue
SetErrorNoContent_Requeue(d) == StatusWrite(d, "no_content", READY, "ack", "except", "except")

\* lines 911-915: no response, no choices or no content
SetErrorNoContent(d) == StatusWrite(d, "no_content", ERROR_PROCESSING, "ack", "except", "except")

\* SetErrorInExcept, were the except clause only to log
SetErrorInExcept_LogOnly(d) ==
    /\ wpc[d] = "except"
    /\ Respond(d, Acknowledgment(wl[d].page_id))
    /\ UNCHANGED <<page_status, page_blocks, request, wl, wtrace>>
    /\ UNCHANGED llmvars
    /\ UNCHANGED tablevars

\* lines 917-927: the except clause's own write, whose failure is swallowed
SetErrorInExcept(d) == StatusWrite(d, "except", ERROR_PROCESSING, "ack", "ack", "ack")

Handler(d) ==
    \/ Handshake(d)
    \/ Verify(d)
    \/ Resolve(d)
    \/ ReadStatus(d)
    \/ SetInProgress(d)
    \/ GetPage(d)
    \/ GetPageContent(d)
    \/ RunCompletion(d)
    \/ AppendCodeBlock(d)
    \/ SetDone(d)
    \/ SetErrorBadJson(d)
    \/ SetErrorNoContent(d)
    \/ SetErrorInExcept(d)

(***************************************************************************)
(*          app.py: the merchant and offer tables and their routes         *)
(***************************************************************************)
\* the most rows either table is let grow to
MaxRows == 2

\* str(uuid.uuid4()).split("-")[0] behind "mer_" and "off_": any of a few values
MerchantIds == {"mer_1", "mer_2"}
OfferIds == {"off_1", "off_2"}

\* request.form.get("merchant_name"), ("merchant_id"), ("offer_description"): "" = absent or blank
FormNames == {"", "A", "B"}
FormMerchantIds == MerchantIds \cup {""}
FormDescriptions == {"", "5% cashback"}

\* a row of merchants.csv and of offers.csv, by the columns the routes compare
MerchantRow(id, name) == [merchant_id |-> id, merchant_name |-> name]
OfferRow(id, merchant) == [offer_id |-> id, merchant_id |-> merchant]

\* df[df[column] == value].index
RowIndex(df, column, value) == {i \in 1..Len(df) : df[i][column] = value}

\* df.drop(index, inplace=True)
Drop(df, index) ==
    LET kept(i) == Cardinality({k \in (1..Len(df)) \ index : k <= i})
        at(n) == CHOOSE i \in (1..Len(df)) \ index : kept(i) = n
    IN [n \in 1..(Len(df) - Cardinality(index)) |-> df[at(n)]]

\* both files missing: two empty tables with their columns
TablesEmpty == merchants_df = <<>> /\ offers_df = <<>>

\* the tables read from the two files
LoadedMerchants == {<<>>, <<MerchantRow("mer_1", "A")>>}
LoadedOffers == {<<>>, <<OfferRow("off_1", "mer_1")>>}

\* every offer's merchant_id names a row of the merchant table
Referenced(merchants, offers) ==
    \A i \in 1..Len(offers) : RowIndex(merchants, "merchant_id", offers[i].merchant_id) # {}

\* load_data, from files in which every offer names a merchant
load_data ==
    /\ merchants_df \in LoadedMerchants
    /\ offers_df \in LoadedOffers
    /\ Referenced(merchants_df, offers_df)

\* POST /add_merchant
add_merchant(merchant_name) ==
    /\ IF merchant_name = "" \/ RowIndex(merchants_df, "merchant_name", merchant_name) # {}
       THEN UNCHANGED merchants_df
       ELSE /\ Len(merchants_df) < MaxRows
            /\ \E new_merchant_id \in MerchantIds :
                   merchants_df' = Append(merchants_df, MerchantRow(new_merchant_id, merchant_name))
    /\ UNCHANGED offers_df
    /\ UNCHANGED llmvars
    /\ UNCHANGED webvars

\* POST /edit_merchant/<merchant_id>
edit_merchant(merchant_id, updated_name) ==
    LET merchant_row_index == RowIndex(merchants_df, "merchant_id", merchant_id)
        merchant_index == CHOOSE i \in merchant_row_index : \A k \in merchant_row_index : i <= k
    IN /\ IF \/ merchants_df = <<>>
             \/ merchant_row_index = {}
             \/ updated_name = ""
             \/ /\ updated_name # merchants_df[merchant_index].merchant_name
                /\ RowIndex(merchants_df, "merchant_name", updated_name) # {}
          THEN UNCHANGED merchants_df
          ELSE merchants_df' = [merchants_df EXCEPT ![merchant_index].merchant_name = updated_name]
       /\ UNCHANGED offers_df
       /\ UNCHANGED llmvars
       /\ UNCHANGED webvars

\* POST /delete_merchant/<merchant_id>
delete_merchant(merchant_id) ==
    LET merchant_row_index == RowIndex(merchants_df, "merchant_id", merchant_id)
    IN /\ IF \/ merchants_df = <<>>
             \/ RowIndex(offers_df, "merchant_id", merchant_id) # {}
             \/ merchant_row_index = {}
          THEN UNCHANGED merchants_df
          ELSE merchants_df' = Drop(merchants_df, merchant_row_index)
       /\ UNCHANGED offers_df
       /\ UNCHANGED llmvars
       /\ UNCHANGED webvars

\* POST /add_offer
add_offer(selected_merchant_id, offer_description) ==
    /\ IF selected_merchant_id = "" \/ offer_description = ""
       THEN UNCHANGED offers_df
       ELSE /\ Len(offers_df) < MaxRows
            /\ \E new_offer_id \in OfferIds :
                   offers_df' = Append(offers_df, OfferRow(new_offer_id, selected_merchant_id))
    /\ UNCHANGED merchants_df
    /\ UNCHANGED llmvars
    /\ UNCHANGED webvars

\* POST /delete_offer/<offer_id>
delete_offer(offer_id) ==
    LET offer_row_index == RowIndex(offers_df, "offer_id", offer_id)
    IN /\ IF offers_df = <<>> \/ offer_row_index = {}
          THEN UNCHANGED offers_df
          ELSE offers_df' = Drop(offers_df, offer_row_index)
       /\ UNCHANGED merchants_df
       /\ UNCHANGED llmvars
       /\ UNCHANGED webvars

(***************************************************************************)
(*                           specifications                                *)
(***************************************************************************)
Init == LLMInit /\ WebInit /\ TablesEmpty

\* ---- the threads of one LLMClient calling run_completion
InitLLM == LLMInit /\ WebInit /\ page_status = READY /\ TablesEmpty

LLMNext ==
    \E c \in Callers :
        \/ \E req \in CallRequests : EnterRunCompletion(c, req)
        \/ ProviderSuccess(c)
        \/ ProviderRateLimit(c)
        \/ ProviderOtherError(c)
        \/ OpenCacheFile(c)
        \/ SaveToCache(c)

SpecLLM == InitLLM /\ [][LLMNext]_vars

\* ---- the cache key of any request of the universe, two callers
KeyNext == \E c \in Callers, req \in Requests : GenerateCacheKey(c, req)

SpecKey == InitLLM /\ [][KeyNext]_vars

\* ---- a caller of the two converters of NotionClient
\* markdown_to_notion_blocks(markdown) is called (lines 175-252)
MarkdownToNotionBlocks(d) ==
    /\ wpc[d] = "idle"
    /\ wl[d].conv.op = ""
    /\ \E markdown \in Markdowns :
          wl' = [wl EXCEPT ![d].conv =
                    [NoConversion EXCEPT !.op = "markdown_to_notion_blocks",
                                         !.markdown = markdown,
                                         !.blocks = markdown_to_notion_blocks(markdown)]]
    /\ UNCHANGED <<page_status, page_blocks, wpc, request, wtrace, resp>>
    /\ UNCHANGED llmvars
    /\ UNCHANGED tablevars

\* notion_blocks_to_markdown(blocks) is called (lines 254-299)
NotionBlocksToMarkdown(d) ==
    /\ wpc[d] = "idle"
    /\ wl[d].conv.op = ""
    /\ \E blocks \in BlockLists :
          wl' = [wl EXCEPT ![d].conv =
                    [NoConversion EXCEPT !.op = "notion_blocks_to_markdown",
                                         !.blocks = blocks,
                                         !.markdown = notion_blocks_to_markdown(blocks)]]
    /\ UNCHANGED <<page_status, page_blocks, wpc, request, wtrace, resp>>
    /\ UNCHANGED llmvars
    /\ UNCHANGED tablevars

\* the markdown notion_blocks_to_markdown gave is handed to markdown_to_notion_blocks
ConvertBack(d) ==
    /\ wpc[d] = "idle"
    /\ wl[d].conv.op = "notion_blocks_to_markdown"
    /\ wl' = [wl EXCEPT ![d].conv =
                 [wl[d].conv EXCEPT !.op = "round_trip",
                                    !.back = markdown_to_notion_blocks(wl[d].conv.markdown)]]
    /\ UNCHANGED <<page_status, page_blocks, wpc, request, wtrace, resp>>
    /\ UNCHANGED llmvars
    /\ UNCHANGED tablevars

MarkdownNext ==
    \/ MarkdownToNotionBlocks("d1")
    \/ NotionBlocksToMarkdown("d1")
    \/ ConvertBack("d1")

SpecMarkdown == InitLLM /\ [][MarkdownNext]_vars

\* ---- the requests to the merchant and offer routes, one after another
InitTables == LLMInit /\ WebInit /\ page_status = READY /\ load_data

TablesNext ==
    \/ \E merchant_name \in FormNames : add_merchant(merchant_name)
    \/ \E merchant_id \in MerchantIds, updated_name \in FormNames : edit_merchant(merchant_id, updated_name)
    \/ \E merchant_id \in MerchantIds : delete_merchant(merchant_id)
    \/ \E selected_merchant_id \in FormMerchantIds, offer_description \in FormDescriptions :
           add_offer(selected_merchant_id, offer_description)
    \/ \E offer_id \in OfferIds : delete_offer(offer_id)

SpecTables == InitTables /\ [][TablesNext]_vars

\* ---- two deliveries to the webhook, side by side
Next ==
    \E d \in Deliveries :
        \/ Receive(d, DeliveredRequests)
        \/ Handler(d)

Spec == Init /\ [][Next]_vars

\* ---- one delivery, any request of the universe
NextVerify ==
    \/ Receive("d1", AllRequests)
    \/ Handler("d1")

SpecVerify == Init /\ [][NextVerify]_vars

(***************************************************************************)
(*                    properties of run_completion                         *)
(***************************************************************************)
\* the provider invocations of a call, in order
ProviderEvents(t) == SelectSeq(t, LAMBDA e : e.ev = "provider")
SleepEvents(t) == SelectSeq(t, LAMBDA e : e.ev = "sleep")

\* C1: whenever run_completion is called and the file of the request's
\* fingerprint holds a pickled response, the call returns that response at
\* once: no provider invocation in the call, completion_history left as it was,
\* and so the history cost total unchanged.
C1_CacheHitReturnsEntry ==
    [][\A c \in Callers, req \in CallRequests :
          ( /\ EnterRunCompletion(c, req)
            /\ cache[generate_cache_key(req.model, req.messages, req.kwargs)].state = "pickle" )
          => /\ lpc'[c] = "done"
             /\ ret'[c] = Return(cache[generate_cache_key(req.model, req.messages, req.kwargs)].data)
             /\ ProviderEvents(ltrace'[c]) = <<>>
             /\ completion_history' = completion_history
             /\ get_completion_history_cost(completion_history')
                  = get_completion_history_cost(completion_history)]_vars

\* a call served from the cache, after the call that filled it left its record
C1_Witness ==
    \E c \in Callers :
        /\ lpc[c] = "done"
        /\ ltrace[c] = <<Ev("cache_check", "hit", 0)>>
        /\ ret[c].kind = "return"
        /\ ret[c].value \in Responses
        /\ Len(completion_history) = 1

\* C9: in one run_completion call the provider is invoked at most 3 times, and an
\* invocation after the first happens only when every earlier invocation of the
\* call raised a rate-limit error.
C9_AtMostThreeProviderCalls ==
    \A c \in Callers :
        LET p == ProviderEvents(ltrace[c])
        IN  /\ Len(p) <= 3
            /\ \A i \in 1..Len(p) : \A j \in 1..(i - 1) : p[j].arg = "rate_limit"

\* a call whose third invocation succeeded after two rate-limit errors
C9_Witness ==
    \E c \in Callers :
        LET p == ProviderEvents(ltrace[c])
        IN  /\ Len(p) = 3
            /\ p[1].arg = "rate_limit"
            /\ p[2].arg = "rate_limit"
            /\ p[3].arg = "ok"
            /\ lpc[c] = "done"

\* C10: after a provider invocation that raised an error other than a rate-limit
\* error, the call makes no further provider invocation and no sleep; when that
\* was the first attempt the call has made exactly one invocation and no sleep.
C10_OtherErrorEndsLoop ==
    \A c \in Callers :
        LET t == ltrace[c]
        IN  /\ \A i \in 1..Len(t) :
                  t[i] = Ev("provider", "error", 0)
                  => \A j \in (i + 1)..Len(t) : t[j].ev \notin {"provider", "sleep"}
            /\ ( /\ ProviderEvents(t) # <<>>
                 /\ ProviderEvents(t)[1].arg = "error" )
               => /\ Len(ProviderEvents(t)) = 1
                  /\ SleepEvents(t) = <<>>

\* a finished call whose first attempt raised such an error: one invocation, no
\* sleep, None returned
C10_Witness ==
    \E c \in Callers :
        /\ lpc[c] = "done"
        /\ ltrace[c] = <<Ev("cache_check", "miss", 0), Ev("provider", "error", 0), Ev("history", "", 0)>>
        /\ ret[c] = Return(NoResponse)

\* ---- what a rate-limit payload says, read off the payload itself
\* the payload names the delay n: a RetryInfo item whose retryDelay is the
\* decimal digits of n followed by "s"
CarriesDelay(p, n) ==
    /\ p.json_ok
    /\ \E i \in 1..Len(p.details) :
          /\ p.details[i].type = RetryInfo
          /\ \/ n = 0 /\ p.details[i].retryDelay = <<"0", "s">>
             \/ n = 3 /\ p.details[i].retryDelay = <<"3", "s">>
             \/ n = 7 /\ p.details[i].retryDelay = <<"7", "s">>

SuggestedDelays == {0, 3, 7}

WellFormedDelay(p) == \E n \in SuggestedDelays : CarriesDelay(p, n)

\* no RetryInfo item at all, or no payload to read
NoDelay(p) ==
    \/ ~p.json_ok
    \/ \A i \in 1..Len(p.details) : p.details[i].type # RetryInfo

\* the positions of the provider invocations in a trace
ProviderAt(t) == { i \in 1..Len(t) : t[i].ev = "provider" }

\* C11: a rate-limit error without a delay in its payload, on attempt k of 0 and
\* 1, is followed by one sleep of 5 * 2^k seconds (5, then 10) and the next
\* attempt; on the third attempt it is followed by no sleep and the call ends;
\* and in every call exactly one sleep lies between two consecutive invocations.
C11_ExponentialBackoff ==
    /\ [][\A c \in Callers, p \in RateLimitPayloads :
             (NoDelay(p) /\ RateLimited(c, p))
             => IF frame[c].attempt < 2
                THEN /\ ltrace'[c] = ltrace[c] \o
                          << Ev("provider", "rate_limit", 0),
                             Ev("sleep", "", IF frame[c].attempt = 0 THEN 5 ELSE 10) >>
                     /\ lpc'[c] = "attempt"
                     /\ frame'[c].attempt = frame[c].attempt + 1
                ELSE /\ SleepEvents(ltrace'[c]) = SleepEvents(ltrace[c])
                     /\ lpc'[c] = "done"]_vars
    /\ [](\A c \in Callers :
             \A i, j \in ProviderAt(ltrace[c]) :
                 (i < j /\ \A m \in (i + 1)..(j - 1) : ltrace[c][m].ev # "provider")
                 => Cardinality({ m \in (i + 1)..(j - 1) : ltrace[c][m].ev = "sleep" }) = 1)

\* a call that backed off 5 s and 10 s and gave up after the third rate-limit error
C11_Witness ==
    \E c \in Callers :
        /\ lpc[c] = "done"
        /\ ltrace[c] = << Ev("cache_check", "miss", 0),
                          Ev("provider", "rate_limit", 0), Ev("sleep", "", 5),
                          Ev("provider", "rate_limit", 0), Ev("sleep", "", 10),
                          Ev("provider", "rate_limit", 0), Ev("history", "", 0) >>

\* C12: a rate-limit error on attempt 0 or 1 is followed by a sleep and the next
\* attempt whatever its payload; the sleep lasts N seconds when the payload
\* carries the retry delay "Ns", and 5 * 2^attempt seconds otherwise.
C12_ProviderDelayOrBackoff ==
    [][\A c \in Callers, p \in RateLimitPayloads :
          (RateLimited(c, p) /\ frame[c].attempt < 2)
          => /\ lpc'[c] = "attempt"
             /\ ret'[c].kind # "raise"
             /\ Len(ltrace'[c]) = Len(ltrace[c]) + 2
             /\ ltrace'[c][Len(ltrace'[c])].ev = "sleep"
             /\ \A n \in SuggestedDelays :
                   CarriesDelay(p, n) => ltrace'[c][Len(ltrace'[c])].n = n
             /\ ~WellFormedDelay(p)
                   => ltrace'[c][Len(ltrace'[c])].n = (IF frame[c].attempt = 0 THEN 5 ELSE 10)]_vars

\* C13: no call of run_completion ends by raising; a call that ended after a
\* third rate-limit error or after another error returned None, and the history
\* holds its record with the error text.
C13_NeverRaises ==
    \A c \in Callers :
        /\ ret[c].kind # "raise"
        /\ ( /\ lpc[c] = "done"
             /\ ProviderEvents(ltrace[c]) # <<>>
             /\ ProviderEvents(ltrace[c])[Len(ProviderEvents(ltrace[c]))].arg # "ok" )
           => /\ ret[c] = Return(NoResponse)
              /\ \E i \in 1..Len(completion_history) :
                    /\ ~completion_history[i].success
                    /\ completion_history[i].error \in {"RateLimitError", "OtherError"}

\* C14: a finished call that was not a cache hit has appended exactly one record
\* to completion_history, a cache hit none; with one call made, the history has
\* that many records.
C14_OneRecordPerCall ==
    \A c \in Callers :
        lpc[c] = "done"
        => LET n == Len(SelectSeq(ltrace[c], LAMBDA e : e.ev = "history"))
           IN  /\ n = (IF ltrace[c][1] = Ev("cache_check", "hit", 0) THEN 0 ELSE 1)
               /\ ncalls = 1 => Len(completion_history) = n

\* the provider call of c's running call has succeeded
Succeeded(c) == \E i \in 1..Len(ltrace[c]) : ltrace[c][i] = Ev("provider", "ok", 0)

\* C15: a call whose provider call succeeded returns only after its cache write:
\* a write that went through has put the response in the file of the request's
\* fingerprint, and whether it went through or raised the call returns the
\* response and its history record says success.
C15_WriteBeforeReturn ==
    [][\A c \in Callers :
          (Succeeded(c) /\ lpc[c] # "done" /\ lpc'[c] = "done")
          => LET last == ltrace'[c][Len(ltrace'[c])]
             IN  /\ last.ev = "cache_write"
                 /\ last.arg = "written"
                       => cache'[frame[c].cache_key] = Pickled(frame[c].response)
                 /\ frame[c].response \in Responses
                 /\ ret'[c] = Return(frame[c].response)
                 /\ \E i \in 1..Len(completion_history') :
                       /\ completion_history'[i].success
                       /\ completion_history'[i].response_id = frame[c].response.id]_vars

\* a call whose cache write raised and that returned the response all the same
C15_Witness ==
    \E c \in Callers :
        /\ lpc[c] = "done"
        /\ Succeeded(c)
        /\ ltrace[c][Len(ltrace[c])].ev = "cache_write"
        /\ ltrace[c][Len(ltrace[c])].arg \in {"open_raises", "dump_raises"}
        /\ ret[c].kind = "return"
        /\ ret[c].value \in Responses
        /\ \E i \in 1..Len(completion_history) : completion_history[i].success

\* C16: once the cache file of a fingerprint holds a pickled response, no step of
\* any call writes it again or changes what it holds.
C16_CacheWrittenOnce ==
    [][\A k \in CacheKeys : cache[k].state = "pickle" => cache'[k] = cache[k]]_vars

\* ---- requests that differ in one respect only
Pairs(kwargs) == { kwargs[i] : i \in 1..Len(kwargs) }

\* how often a message occurs in a list
Count(msgs, m) == Cardinality({ i \in 1..Len(msgs) : msgs[i] = m })

OnlyKwargsOrderDiffers(r1, r2) ==
    /\ r1.model = r2.model
    /\ r1.messages = r2.messages
    /\ r1.kwargs # r2.kwargs
    /\ Pairs(r1.kwargs) = Pairs(r2.kwargs)

OnlyMessageOrderDiffers(r1, r2) ==
    /\ r1.model = r2.model
    /\ r1.kwargs = r2.kwargs
    /\ r1.messages # r2.messages
    /\ \A m \in {"system", "user"} : Count(r1.messages, m) = Count(r2.messages, m)

\* C17: two callers holding requests with the same model, the same messages and
\* the same options in another key order hold the same cache key.
C17_KwargsOrderIgnored ==
    \A c1, c2 \in Callers :
        OnlyKwargsOrderDiffers(frame[c1].req, frame[c2].req)
        => frame[c1].cache_key = frame[c2].cache_key

C17_Witness ==
    \E c1, c2 \in Callers :
        /\ OnlyKwargsOrderDiffers(frame[c1].req, frame[c2].req)
        /\ frame[c1].cache_key # <<>>
        /\ frame[c1].cache_key = frame[c2].cache_key

\* C18: two callers holding requests with the same model and options whose
\* message lists are two orders of the same messages hold different cache keys.
C18_MessageOrderMatters ==
    \A c1, c2 \in Callers :
        OnlyMessageOrderDiffers(frame[c1].req, frame[c2].req)
        => frame[c1].cache_key # frame[c2].cache_key

C18_Witness ==
    \E c1, c2 \in Callers :
        /\ OnlyMessageOrderDiffers(frame[c1].req, frame[c2].req)
        /\ frame[c1].cache_key # <<>>
        /\ frame[c2].cache_key # <<>>
        /\ frame[c1].cache_key # frame[c2].cache_key

\* C30: when the provider returns a response whose cost cannot be computed, the
\* call appends a history record with success true and cost 0 and goes on to the
\* cache write; it then returns that response, and a cache write that went
\* through has put the response in the file of the request's fingerprint.
C30_CostFailureDegrades ==
    /\ [][\A c \in Callers :
             ( /\ lpc[c] = "attempt"
               /\ ltrace'[c] # ltrace[c]
               /\ \E i \in (Len(ltrace[c]) + 1)..Len(ltrace'[c]) : ltrace'[c][i] = Ev("provider", "ok", 0)
               /\ frame'[c].response.id \in Unpriced )
             => /\ lpc'[c] = "save"
                /\ Len(completion_history') = Len(completion_history) + 1
                /\ LET record == completion_history'[Len(completion_history')]
                   IN  /\ record.success
                       /\ record.cost_dollars = 0
                       /\ record.response_id = frame'[c].response.id]_vars
    /\ [][\A c \in Callers :
             (lpc[c] \in {"save", "dump"} /\ frame[c].response.id \in Unpriced /\ lpc'[c] = "done")
             => /\ ret'[c] = Return(frame[c].response)
                /\ ltrace'[c][Len(ltrace'[c])].arg = "written"
                      => cache'[frame[c].cache_key] = Pickled(frame[c].response)]_vars

\* a call returned a response without a price, its record says success at cost
\* 0, and the response is in the cache file
C30_Witness ==
    \E c \in Callers :
        /\ lpc[c] = "done"
        /\ ret[c].kind = "return"
        /\ ret[c].value \in Responses
        /\ ret[c].value.id \in Unpriced
        /\ ltrace[c][Len(ltrace[c])] = Ev("cache_write", "written", 0)
        /\ \E i \in 1..Len(completion_history) :
              /\ completion_history[i].success
              /\ completion_history[i].cost_dollars = 0
              /\ completion_history[i].response_id = ret[c].value.id
        /\ \E k \in CacheKeys : cache[k] = Pickled(ret[c].value)

\* the call of c appends its history record in this step
AppendsRecord(c) ==
    /\ lpc[c] = "attempt"
    /\ Len(completion_history') = Len(completion_history) + 1
    /\ ltrace'[c] # ltrace[c]

\* C35: a history record says success exactly when its call goes on to return a
\* response, and a record that says success has no error, also when the call
\* was rate limited on an earlier attempt.
C35_SuccessMeansNoError ==
    /\ [][\A c \in Callers :
             AppendsRecord(c)
             => LET record == completion_history'[Len(completion_history')]
                IN  /\ record.success <=> (lpc'[c] = "save" /\ frame'[c].response \in Responses)
                    /\ ~record.success <=> (lpc'[c] = "done" /\ ret'[c] = Return(NoResponse))]_vars
    /\ [](\A i \in 1..Len(completion_history) :
             completion_history[i].success => completion_history[i].error = "None")

\* C36: the cache changes only in the cache write of a call whose provider call
\* succeeded, only at the key of that call's request, and a write that goes
\* through stores that call's response; a call that ends without a response
\* leaves every cache file as it was; and a call made when the file of its
\* request's key is absent or does not load goes to the provider.
C36_FailureWritesNoCache ==
    /\ [][\A c \in Callers :
             (lpc[c] # "done" /\ lpc'[c] = "done" /\ ret'[c].value = NoResponse)
             => /\ cache' = cache
                /\ \A i \in 1..Len(ltrace'[c]) : ltrace'[c][i].ev # "cache_write"]_vars
    /\ [][cache' # cache
             => \E c \in Callers :
                   /\ lpc[c] \in {"save", "dump"}
                   /\ Succeeded(c)
                   /\ frame[c].success
                   /\ frame[c].response \in Responses
                   /\ frame[c].cache_key = generate_cache_key(frame[c].req.model, frame[c].req.messages,
                                                              frame[c].req.kwargs)
                   /\ \A k \in CacheKeys \ {frame[c].cache_key} : cache'[k] = cache[k]
                   /\ cache'[frame[c].cache_key] \in {Corrupt, Pickled(frame[c].response)}]_vars
    /\ [][\A c \in Callers, req \in CallRequests :
             ( /\ EnterRunCompletion(c, req)
               /\ ~LoadsCleanly(cache[generate_cache_key(req.model, req.messages, req.kwargs)]) )
             => /\ lpc'[c] = "attempt"
                /\ ltrace'[c] = <<Ev("cache_check", "miss", 0)>>]_vars
    /\ [](\A c \in Callers :
             (lpc[c] \in {"save", "dump", "done"} /\ ltrace[c] # <<>> /\ ltrace[c][1].arg = "miss")
             => ProviderEvents(ltrace[c]) # <<>>)

\* a call failed and left its record, the cache is still empty, and the next
\* call has gone to the provider again
C36_Witness ==
    /\ ncalls = 2
    /\ \A k \in CacheKeys : cache[k] = NoFile
    /\ Len(completion_history) = 2
    /\ ~completion_history[1].success
    /\ \E c \in Callers :
          /\ lpc[c] = "done"
          /\ ret[c] = Return(NoResponse)
          /\ ProviderEvents(ltrace[c]) # <<>>
    /\ \E c \in Callers : lpc[c] = "idle"

\* the step of c is a cache write that failed
CacheWriteFails(c) ==
    /\ lpc[c] \in {"save", "dump"}
    /\ lpc'[c] = "done"
    /\ ltrace'[c][Len(ltrace'[c])].arg \in {"open_raises", "dump_raises"}

\* C37: once the cache file of a fingerprint holds the response of a call, every
\* later call with that fingerprint returns that response at once, with no
\* provider invocation and no new history record; and a cache write that fails
\* leaves no file that loads, so that the next call with that fingerprint goes
\* to the provider.
C37_CachedThenReused ==
    /\ [][\A k \in CacheKeys : \A r \in Responses :
             cache[k] = Pickled(r)
             => /\ cache'[k] = Pickled(r)
                /\ \A c \in Callers, req \in CallRequests :
                      ( /\ EnterRunCompletion(c, req)
                        /\ generate_cache_key(req.model, req.messages, req.kwargs) = k )
                      => /\ lpc'[c] = "done"
                         /\ ret'[c] = Return(r)
                         /\ ProviderEvents(ltrace'[c]) = <<>>
                         /\ completion_history' = completion_history]_vars
    /\ [][\A c \in Callers :
             CacheWriteFails(c) => ~LoadsCleanly(cache'[frame[c].cache_key])]_vars

(***************************************************************************)
(*                    properties of notion_webhook                         *)
(***************************************************************************)
\* the calls of a run to the document store and to the completion client
WorkOps ==
    {"get_page_status", "update_page_status", "get_page", "get_page_content",
     "run_completion", "append_code_block_to_page"}
Work(t) == SelectSeq(t, LAMBDA e : e.op \in WorkOps)
StatusWrites(t) == SelectSeq(t, LAMBDA e : e.op = "update_page_status")
Appends(t) == SelectSeq(t, LAMBDA e : e.op = "append_code_block_to_page")
WritesOf(t, status) == SelectSeq(t, LAMBDA e : e.op = "update_page_status" /\ e.arg = status)

\* the signature header the check reads, the message it signs, and whether the
\* digest the header carries is the HMAC of that message under the secret
SignatureHeader(r) ==
    IF r.headers.sig_v2 # <<>> /\ r.headers.timestamp # <<>> THEN r.headers.sig_v2 ELSE r.headers.sig_v1
SignedMessage(r) ==
    IF r.headers.sig_v2 # <<>> /\ r.headers.timestamp # <<>>
    THEN r.headers.timestamp \o <<":">> \o r.body.raw
    ELSE r.body.raw
DigestMatches(r) ==
    /\ SignatureHeader(r) # <<>>
    /\ split_eq_last(SignatureHeader(r)) = hexdigest(NOTION_API_KEY, SignedMessage(r))
OneCharacterAltered(a, b) ==
    /\ Len(a) = Len(b)
    /\ Cardinality({i \in 1..Len(a) : a[i] # b[i]}) = 1

\* the request went through the signature check, and how it came out
Checked(d) == request[d].body.kind = "event" /\ wpc[d] \notin {"idle", "parse", "verify"}
Rejected(d) ==
    /\ wpc[d] = "responded"
    /\ resp[d].kind = "error"
    /\ resp[d].value \in {"missing", "not_configured", "invalid", "TypeError"}

\* C2: a run makes a status write, a page fetch, a content fetch, a completion call
\* or a block append only after its status read returned "Ready for analysis", and
\* then the write of "In progress" is its first call after the read, before every
\* fetch, completion call and append.
C2_ReadyThenInProgressFirst ==
    \A d \in Deliveries :
        LET w == Work(wtrace[d])
        IN  (\E i \in 1..Len(w) : w[i].op # "get_page_status")
            => /\ w[1] = Call("get_page_status", READY, "ok")
               /\ w[2].op = "update_page_status"
               /\ w[2].arg = IN_PROGRESS
               /\ \A i \in 3..Len(w) : w[i].op # "get_page_status"

\* a finished run that fetched, called the completion client and appended
C2_Witness ==
    \E d \in Deliveries :
        /\ wpc[d] = "responded"
        /\ \E i \in 1..Len(wtrace[d]) : wtrace[d][i].op = "run_completion"
        /\ Appends(wtrace[d]) # <<>>

\* C3: a run on a "Ready for analysis" page in which every call succeeds and the
\* completion returns the extraction JSON makes exactly these calls, in this order:
\* the "In progress" write, the two fetches, the completion call, one append of
\* that JSON, the "Done" write; so two status writes and one append before "Done",
\* and the page holds the JSON as an appended block.
C3_HappyPath ==
    \A d \in Deliveries :
        LET w == Work(wtrace[d])
        IN  ( /\ wpc[d] = "responded"
              /\ w # <<>>
              /\ w[1] = Call("get_page_status", READY, "ok")
              /\ \A i \in 1..Len(w) : w[i].out = "ok"
              /\ \E i \in 1..Len(w) : w[i] = Call("run_completion", "extraction", "ok") )
            => /\ w = << Call("get_page_status", READY, "ok"),
                         Call("update_page_status", IN_PROGRESS, "ok"),
                         Call("get_page", "", "ok"),
                         Call("get_page_content", "", "ok"),
                         Call("run_completion", "extraction", "ok"),
                         Call("append_code_block_to_page", "extraction", "ok"),
                         Call("update_page_status", DONE, "ok") >>
               /\ Len(StatusWrites(w)) = 2
               /\ Len(Appends(w)) = 1
               /\ \E k \in 1..Len(page_blocks) : page_blocks[k] = Text("extraction", "indent2")
               /\ resp[d].kind = "received"

\* a finished run of that kind
C3_Witness ==
    \E d \in Deliveries :
        /\ wpc[d] = "responded"
        /\ Len(Work(wtrace[d])) = 7
        /\ \A i \in 1..7 : Work(wtrace[d])[i].out = "ok"
        /\ Work(wtrace[d])[5] = Call("run_completion", "extraction", "ok")
        /\ page_status = DONE

\* C4 as claimed: a run whose completion call returned text that is not JSON ends
\* with the page status "Error Processing", never writes "Done", appends no block.
C4_Original ==
    \A d \in Deliveries :
        ( /\ wpc[d] = "responded"
          /\ \E i \in 1..Len(wtrace[d]) : wtrace[d][i] = Call("run_completion", "invalid", "ok") )
        => /\ page_status = ERROR_PROCESSING
           /\ WritesOf(wtrace[d], DONE) = <<>>
           /\ Appends(wtrace[d]) = <<>>

\* C4, amended: a run whose completion call returned text that is not JSON never
\* writes "Done", appends no block, and its last call is a write of "Error
\* Processing"; when the store applies that write the page status is "Error
\* Processing" as the run returns its acknowledgment.
C4_NonJsonCompletion ==
    [][\A d \in Deliveries :
          ( /\ wpc[d] # "responded"
            /\ wpc'[d] = "responded"
            /\ \E i \in 1..Len(wtrace'[d]) : wtrace'[d][i] = Call("run_completion", "invalid", "ok") )
          => LET t == wtrace'[d]
                 last == t[Len(t)]
             IN  /\ last.op = "update_page_status"
                 /\ last.arg = ERROR_PROCESSING
                 /\ (last.out # "raises" => page_status' = ERROR_PROCESSING)
                 /\ WritesOf(t, DONE) = <<>>
                 /\ Appends(t) = <<>>
                 /\ page_blocks' = page_blocks
                 /\ resp'[d].kind = "received"]_vars

\* a finished run whose completion was not JSON and whose error write went through
C4_Witness ==
    \E d \in Deliveries :
        /\ wpc[d] = "responded"
        /\ \E i \in 1..Len(wtrace[d]) : wtrace[d][i] = Call("run_completion", "invalid", "ok")
        /\ wtrace[d][Len(wtrace[d])] = Call("update_page_status", ERROR_PROCESSING, "ok")
        /\ page_status = ERROR_PROCESSING

\* C5: every request that passed the signature check is answered with the
\* acknowledgment {received: true, processed_page_id: id or null}, never with an
\* HTTP error, whatever the store calls and the completion call did.
C5_AlwaysAcknowledged ==
    \A d \in Deliveries :
        (Checked(d) /\ ~Rejected(d) /\ wpc[d] = "responded")
        => /\ resp[d].kind = "received"
           /\ resp[d].code = 200

\* C6: in a finished run, when a call after the "In progress" write raised (page
\* fetch, content fetch or conversion, completion, block append, "Done" write), a
\* write of "Error Processing" was attempted after it and the run was answered
\* with the acknowledgment; when the call that raised was the block append, the
\* run made no "Done" write.
C6_FailureDrivesErrorProcessing ==
    \A d \in Deliveries :
        LET w == Work(wtrace[d])
        IN  \A i \in 1..Len(w) :
               ( /\ wpc[d] = "responded"
                 /\ w[i].out \in {"raises", "json_error", "malformed"}
                 /\ \/ w[i].op \in {"get_page", "get_page_content", "run_completion",
                                    "append_code_block_to_page"}
                    \/ w[i].op = "update_page_status" /\ w[i].arg = DONE
                 /\ \E k \in 1..(i - 1) : w[k].op = "update_page_status" /\ w[k].arg = IN_PROGRESS )
               => /\ \E j \in (i + 1)..Len(w) :
                        w[j].op = "update_page_status" /\ w[j].arg = ERROR_PROCESSING
                  /\ resp[d].kind = "received"
                  /\ resp[d].code = 200
                  /\ (w[i].op = "append_code_block_to_page" => WritesOf(w, DONE) = <<>>)

\* a finished run whose block append raised
C6_Witness ==
    \E d \in Deliveries :
        /\ wpc[d] = "responded"
        /\ \E i \in 1..Len(wtrace[d]) :
              /\ wtrace[d][i].op = "append_code_block_to_page"
              /\ wtrace[d][i].out = "raises"
        /\ page_status = ERROR_PROCESSING

\* C7: the signature check accepts a request exactly when the digest its signature
\* header carries is HMAC-SHA256(secret, message), message being timestamp ":" body
\* under V2 and the body under V1; and a signature that is the right one with one
\* character altered is rejected with 401.
C7_SignatureVerification ==
    \A d \in Deliveries :
        Checked(d)
        => /\ (~Rejected(d)) <=> DigestMatches(request[d])
           /\ ( /\ SignatureHeader(request[d]) # <<>>
                /\ OneCharacterAltered(split_eq_last(SignatureHeader(request[d])),
                                       hexdigest(NOTION_API_KEY, SignedMessage(request[d]))) )
              => (Rejected(d) /\ resp[d].code = 401)

\* C8: while a request whose signature is missing or does not match is handled,
\* no call goes to the document store or the completion client, the page status
\* and the page's blocks stay as they are, and the answer is an HTTP error.
C8_RejectedTouchesNothing ==
    [][\A d \in Deliveries :
          (request[d].body.kind = "event" /\ ~DigestMatches(request[d]))
          => /\ page_status' = page_status
             /\ page_blocks' = page_blocks
             /\ Work(wtrace'[d]) = <<>>
             /\ wpc'[d] \in {"verify", "responded"}
             /\ (wpc'[d] = "responded" => resp'[d].kind = "error")]_vars

\* a request with a non-matching signature, rejected after the HMAC was computed
C8_Witness ==
    \E d \in Deliveries :
        /\ Rejected(d)
        /\ resp[d].code = 401
        /\ ~DigestMatches(request[d])
        /\ \E i \in 1..Len(wtrace[d]) : wtrace[d][i].op = "hmac"

\* the status reads of a run, and whether one of them gave something else than
\* "Ready for analysis" (None, given as "", included)
StatusReads(t) == SelectSeq(t, LAMBDA e : e.op = "get_page_status")
ReadNotReady(d) == \E i \in 1..Len(wtrace[d]) :
                      wtrace[d][i].op = "get_page_status" /\ wtrace[d][i].arg # READY

\* C19: a run whose status read gave anything but "Ready for analysis" has made
\* no other call to the store or to the completion client and is acknowledged;
\* the step of that read changes neither the page status nor the page's blocks.
C19_NotReadyTouchesNothing ==
    /\ [](\A d \in Deliveries :
             ReadNotReady(d)
             => /\ Len(Work(wtrace[d])) = 1
                /\ StatusWrites(wtrace[d]) = <<>>
                /\ Appends(wtrace[d]) = <<>>
                /\ wpc[d] = "responded"
                /\ resp[d] = Acknowledgment(wl[d].page_id))
    /\ [][\A d \in Deliveries :
             (~ReadNotReady(d) /\ ReadNotReady(d)')
             => /\ page_status' = page_status
                /\ page_blocks' = page_blocks]_vars

\* a run that found the page "Done" and one whose status read failed
C19_Witness ==
    \E d, e \in Deliveries :
        /\ wpc[d] = "responded"
        /\ Work(wtrace[d]) = <<Call("get_page_status", DONE, "ok")>>
        /\ page_status = DONE
        /\ wpc[e] = "responded"
        /\ Work(wtrace[e]) = <<Call("get_page_status", "", "raises")>>

\* the "In progress" write of a run went through to the store
InProgressTookEffect(d) ==
    \E i \in 1..Len(wtrace[d]) :
        /\ wtrace[d][i].op = "update_page_status"
        /\ wtrace[d][i].arg = IN_PROGRESS
        /\ wtrace[d][i].out # "raises"

\* C20: a delivery that reads the status after the other delivery's "In
\* progress" write went through reads something else than "Ready for analysis",
\* is answered at once, and its run consists of that read alone.
C20_SecondDeliverySkips ==
    [][\A d, e \in Deliveries :
          ( /\ d # e
            /\ InProgressTookEffect(e)
            /\ wpc[d] = "read_status"
            /\ wpc'[d] # "read_status" )
          => /\ wl'[d].current_status # READY
             /\ wpc'[d] = "responded"
             /\ resp'[d] = Acknowledgment(wl[d].page_id)
             /\ Len(Work(wtrace'[d])) = 1
             /\ page_status' = page_status
             /\ page_blocks' = page_blocks]_vars

\* the second delivery found the page "In progress" while the first was at work
C20_Witness ==
    \E d, e \in Deliveries :
        /\ d # e
        /\ InProgressTookEffect(e)
        /\ wpc[e] \notin {"responded", "idle"}
        /\ wpc[d] = "responded"
        /\ Work(wtrace[d]) = <<Call("get_page_status", IN_PROGRESS, "ok")>>

\* the appends of a run that reached the store
AppliedAppends(t) ==
    SelectSeq(t, LAMBDA e : e.op = "append_code_block_to_page" /\ e.out # "raises")

\* the status writes of a run that reached the store
AppliedStatusWrites(t) ==
    SelectSeq(t, LAMBDA e : e.op = "update_page_status" /\ e.out # "raises")

RECURSIVE SumOver(_, _)
SumOver(f, S) ==
    IF S = {} THEN 0
    ELSE LET x == CHOOSE y \in S : TRUE IN f[x] + SumOver(f, S \ {x})

\* C21: a status read made while the page is "Ready for analysis" and the other
\* delivery stands between its own read of that value and its "In progress"
\* write returns "Ready for analysis" too and sends the reader on to the same
\* write; and the page always holds one block per append that reached the store,
\* whichever delivery made it.
C21_DuplicateProcessing ==
    /\ [][\A d, e \in Deliveries :
             ( /\ d # e
               /\ wpc[e] = "set_in_progress"
               /\ page_status = READY
               /\ wpc[d] = "read_status"
               /\ wpc'[d] # "read_status"
               /\ wtrace'[d][Len(wtrace'[d])].out = "ok" )
             => /\ wl'[d].current_status = READY
                /\ wpc'[d] = "set_in_progress"]_vars
    /\ [](Len(page_blocks) =
             SumOver([d \in Deliveries |-> Len(AppliedAppends(wtrace[d]))], Deliveries))

\* both deliveries read "Ready for analysis", both wrote "In progress", both
\* called the completion client and both appended: two blocks on the page
C21_Witness ==
    /\ \A d \in Deliveries :
          /\ wpc[d] = "responded"
          /\ Len(Work(wtrace[d])) >= 2
          /\ Work(wtrace[d])[1] = Call("get_page_status", READY, "ok")
          /\ Work(wtrace[d])[2] = Call("update_page_status", IN_PROGRESS, "ok")
          /\ \E i \in 1..Len(wtrace[d]) :
                wtrace[d][i].op = "run_completion" /\ wtrace[d][i].out = "ok"
          /\ Len(AppliedAppends(wtrace[d])) = 1
    /\ Len(page_blocks) = 2

\* the changes of status the lifecycle allows
LifecycleSteps ==
    { <<READY, IN_PROGRESS>>, <<IN_PROGRESS, DONE>>, <<IN_PROGRESS, ERROR_PROCESSING>> }

\* the delivery whose step this is has just made a status write that reached the store
WroteStatus(d) ==
    /\ Len(AppliedStatusWrites(wtrace'[d])) = Len(AppliedStatusWrites(wtrace[d])) + 1

\* C22 as stated: every status write that reaches the store is one of Ready for
\* analysis -> In progress, In progress -> Done, In progress -> Error Processing.
C22_Original ==
    [][\A d \in Deliveries :
          WroteStatus(d) => <<page_status, page_status'>> \in LifecycleSteps]_vars

\* C22: every run that writes a status has read "Ready for analysis" first, its
\* first write is "In progress" and each later one "Done" or "Error Processing";
\* and while one delivery alone writes to the page and none of its status writes
\* has raised, every status write that reaches the store is one of Ready for
\* analysis -> In progress, In progress -> Done, In progress -> Error Processing.
C22_LifecyclePerRun ==
    /\ [](\A d \in Deliveries :
             LET w == StatusWrites(wtrace[d])
             IN  w # <<>>
                 => /\ Work(wtrace[d])[1] = Call("get_page_status", READY, "ok")
                    /\ w[1].arg = IN_PROGRESS
                    /\ \A i \in 2..Len(w) : w[i].arg \in {DONE, ERROR_PROCESSING})
    /\ [][\A d \in Deliveries :
             ( /\ WroteStatus(d)
               /\ \A e \in Deliveries \ {d} : StatusWrites(wtrace[e]) = <<>>
               /\ \A i \in 1..Len(StatusWrites(wtrace'[d])) :
                     StatusWrites(wtrace'[d])[i].out = "ok" )
             => <<page_status, page_status'>> \in LifecycleSteps]_vars

\* one delivery, every write through: the page went to "In progress" and then to "Done"
C22_Witness ==
    \E d \in Deliveries :
        /\ wpc[d] = "responded"
        /\ StatusWrites(wtrace[d]) =
              << Call("update_page_status", IN_PROGRESS, "ok"), Call("update_page_status", DONE, "ok") >>
        /\ \A e \in Deliveries \ {d} : StatusWrites(wtrace[e]) = <<>>
        /\ page_status = DONE

\* C23: every block a run appends comes from a completion text that spells an
\* ExtractionResult; a run whose completion text is something else, JSON of
\* another shape included, appends nothing and writes "Error Processing".
C23_OnlyExtractionResultAppended ==
    \A d \in Deliveries :
        /\ \A i \in 1..Len(wtrace[d]) :
              wtrace[d][i].op = "append_code_block_to_page" => wtrace[d][i].arg = "extraction"
        /\ ( /\ wpc[d] = "responded"
             /\ \E i \in 1..Len(wtrace[d]) :
                   /\ wtrace[d][i].op = "run_completion"
                   /\ wtrace[d][i].out = "ok"
                   /\ wtrace[d][i].arg \notin {"extraction", ""} )
           => /\ Appends(wtrace[d]) = <<>>
              /\ WritesOf(wtrace[d], ERROR_PROCESSING) # <<>>

\* the body is one of the two setup messages
IsHandshake(r) == r.body.kind \in {"challenge", "verification_token"}

\* what a setup message is answered with, from its body alone
HandshakeAnswer(r) ==
    IF r.body.kind = "challenge"
    THEN [code |-> 200, kind |-> "challenge", value |-> r.body.challenge]
    ELSE [code |-> 200, kind |-> "empty", value |-> ""]

\* C24: a body with a challenge field is answered with that challenge, one with
\* a verification_token field with an empty 200, whatever the signature headers
\* are; the answer is given before the secret is read or a digest computed, and
\* the request reaches neither the page id resolution nor any later step.
C24_HandshakeBeforeSignature ==
    /\ [](\A d \in Deliveries :
             (IsHandshake(request[d]) /\ wpc[d] # "idle")
             => /\ wpc[d] \in {"parse", "responded"}
                /\ wtrace[d] = <<>>
                /\ wpc[d] = "responded" => resp[d] = HandshakeAnswer(request[d]))
    /\ [][\A d \in Deliveries :
             (IsHandshake(request[d]) /\ wpc[d] = "parse" /\ wpc'[d] # "parse")
             => /\ wpc'[d] = "responded"
                /\ resp'[d] = HandshakeAnswer(request[d])]_vars

\* a challenge whose V1 header carries a digest with one character altered has
\* been answered with the challenge
C24_Witness ==
    \E d \in Deliveries :
        /\ request[d].body.kind = "challenge"
        /\ request[d].headers.sig_v1 = Altered(SignedV1(request[d].body.raw), 2, "0")
        /\ request[d].headers.sig_v2 = <<>>
        /\ wpc[d] = "responded"
        /\ resp[d] = [code |-> 200, kind |-> "challenge", value |-> "c1"]

\* neither a V2 signature with its timestamp nor a V1 signature
NoUsableSignature(r) ==
    /\ ~(r.headers.sig_v2 # <<>> /\ r.headers.timestamp # <<>>)
    /\ r.headers.sig_v1 = <<>>

Verified(r) ==
    /\ r.body.kind = "event"
    /\ VerifySignature(r.headers, r.body.raw).result = "pass"

\* the id an event names: the one under "event" when that is an object holding
\* one, else the one under "entity"
NamedId(b) == IF b.event.is_object /\ b.event.id # "" THEN b.event.id ELSE b.entity_id

\* no id can be resolved, or neither the type nor the entity type is a page's
NotAPageEvent(b) ==
    \/ NamedId(b) = ""
    \/ /\ b.type \notin {"page.created", "page.updated", "page.content_updated"}
       /\ ~ContainsPage(b.entity_type)

\* C26: a verified event from which no id can be resolved, or whose type is no
\* page event and whose entity type is no page, is answered with the
\* acknowledgment, with no document-store call and no completion call made.
C26_NonPageEventAcknowledged ==
    \A d \in Deliveries :
        (Verified(request[d]) /\ NotAPageEvent(request[d].body) /\ wpc[d] \notin {"idle", "parse", "verify", "resolve"})
        => /\ wpc[d] = "responded"
           /\ resp[d].kind = "received"
           /\ Work(wtrace[d]) = <<>>

(***************************************************************************)
(*                    properties of the converters                         *)
(***************************************************************************)
\* the conversion the caller has made
Conv == wl["d1"].conv

\* the text of a block: the contents of its text runs, one after the other
RECURSIVE RunsJoined(_)
RunsJoined(rich_text) ==
    IF rich_text = <<>> THEN <<>>
    ELSE RunsJoined(SubSeq(rich_text, 1, Len(rich_text) - 1))
            \o (IF rich_text[Len(rich_text)].type = "text"
                THEN rich_text[Len(rich_text)].content ELSE <<>>)

\* the types and texts of a sequence of blocks
TypesAndTexts(blocks) ==
    [i \in 1..Len(blocks) |-> <<blocks[i].type, RunsJoined(blocks[i].rich_text)>>]

NonBlank(str) == \E i \in 1..Len(str) : str[i] \notin Whitespace

Marker(n) == [i \in 1..(n + 1) |-> IF i <= n THEN "#" ELSE SP]
Dash == <<"-", SP>>
HasPrefix(line, prefix) ==
    /\ Len(line) >= Len(prefix)
    /\ \A i \in 1..Len(prefix) : line[i] = prefix[i]
Without(line, prefix) == [i \in 1..(Len(line) - Len(prefix)) |-> line[i + Len(prefix)]]

\* the type and text the line is to give
BlockFor(line) ==
    IF \E n \in 1..3 : HasPrefix(line, Marker(n))
    THEN LET n == CHOOSE k \in 1..3 : HasPrefix(line, Marker(k))
         IN  << CASE n = 1 -> "heading_1" [] n = 2 -> "heading_2" [] n = 3 -> "heading_3",
                Without(line, Marker(n)) >>
    ELSE IF HasPrefix(line, Dash) THEN <<"bulleted_list_item", Without(line, Dash)>>
    ELSE <<"paragraph", line>>

\* C27: the blocks markdown_to_notion_blocks gives are, in order, one per
\* non-blank line of the input: a heading of level 1, 2 or 3 for a line that
\* starts with "# ", "## " or "### " and a bullet item for one that starts with
\* "- ", each without its prefix, a paragraph holding the whole line for any
\* other; lines that are empty or hold whitespace only give no block.
C27_OneBlockPerNonBlankLine ==
    Conv.op = "markdown_to_notion_blocks"
    => LET lines == split_newline(Conv.markdown)
           kept  == SelectSeq(lines, NonBlank)
       IN  /\ join_newline(lines) = Conv.markdown
           /\ \A i \in 1..Len(lines) : \A j \in 1..Len(lines[i]) : lines[i][j] # NL
           /\ TypesAndTexts(Conv.blocks) = [i \in 1..Len(kept) |-> BlockFor(kept[i])]
           /\ \A i \in 1..Len(Conv.blocks) : Len(Conv.blocks[i].rich_text) = 1

\* "### a", a line of a space and a tab, then "- # a": a heading of level 3
\* with text "a" and a bullet item with text "# a"
C27_Witness ==
    /\ Conv.op = "markdown_to_notion_blocks"
    /\ Conv.markdown = <<"#", "#", "#", SP, "a", NL, SP, TAB, NL, "-", SP, "#", SP, "a">>
    /\ TypesAndTexts(Conv.blocks) =
          << <<"heading_3", <<"a">> >>, <<"bulleted_list_item", <<"#", SP, "a">> >> >>

\* the line a block of a supported type is to give
LineFor(block) ==
    ( CASE block.type = "heading_1" -> Marker(1)
        [] block.type = "heading_2" -> Marker(2)
        [] block.type = "heading_3" -> Marker(3)
        [] block.type = "bulleted_list_item" -> Dash
        [] block.type = "paragraph" -> <<>> ) \o RunsJoined(block.rich_text)

Supported(block) ==
    block.type \in {"heading_1", "heading_2", "heading_3", "bulleted_list_item", "paragraph"}

HasRuns(block) == Supported(block) /\ block.rich_text # <<>>

Converted == Conv.op \in {"notion_blocks_to_markdown", "round_trip"}

\* C28 as stated: the markdown is one line per block of a supported type.
C28_Original ==
    Converted
    => LET kept == SelectSeq(Conv.blocks, Supported)
       IN  Conv.markdown = join_newline([i \in 1..Len(kept) |-> LineFor(kept[i])])

\* C28: the markdown notion_blocks_to_markdown gives is, in block order and
\* joined by newlines, one line per block of a supported type that has at least
\* one rich text run: the "#"s of the level and a space, or "- ", or nothing,
\* followed by the contents of the block's text runs with no separator; a block
\* of another type, and a supported block with no run, gives no line.
C28_OneLinePerBlockWithRuns ==
    Converted
    => LET kept == SelectSeq(Conv.blocks, HasRuns)
       IN  Conv.markdown = join_newline([i \in 1..Len(kept) |-> LineFor(kept[i])])

\* a paragraph with no run, then a heading of level 2 with the runs "a" and "b": "## ab"
C28_Witness ==
    /\ Conv.op = "notion_blocks_to_markdown"
    /\ Conv.blocks = << Block("paragraph", <<>>),
                        Block("heading_2", <<TextRun(<<"a">>), TextRun(<<"b">>)>>) >>
    /\ Conv.markdown = <<"#", "#", SP, "a", "b">>

\* C29: blocks of supported types with non-blank text, turned to markdown and
\* back, come back with the same types and texts.
C29_RoundTrip ==
    ( /\ Conv.op = "round_trip"
      /\ \A i \in 1..Len(Conv.blocks) :
            Supported(Conv.blocks[i]) /\ NonBlank(RunsJoined(Conv.blocks[i].rich_text)) )
    => TypesAndTexts(Conv.back) = TypesAndTexts(Conv.blocks)

(***************************************************************************)
(*               further properties of notion_webhook                      *)
(***************************************************************************)
\* the completion client gave no result, or a result without content
NoResultOrContent(e) ==
    /\ e.op = "run_completion"
    /\ \/ e.out = "none"
       \/ e.out = "ok" /\ e.arg = ""

\* C31: a run whose completion call gave no result, or a result with no content,
\* makes the write of "Error Processing" as its next call, never writes "Done"
\* and appends no block.
C31_NoResultDrivesErrorProcessing ==
    \A d \in Deliveries : \A i \in 1..Len(wtrace[d]) :
        NoResultOrContent(wtrace[d][i])
        => /\ Appends(wtrace[d]) = <<>>
           /\ WritesOf(wtrace[d], DONE) = <<>>
           /\ wpc[d] = "responded"
                 => /\ Len(wtrace[d]) > i
                    /\ wtrace[d][i + 1].op = "update_page_status"
                    /\ wtrace[d][i + 1].arg = ERROR_PROCESSING
           /\ \A j \in (i + 1)..Len(wtrace[d]) :
                 wtrace[d][j].op = "update_page_status" /\ wtrace[d][j].arg = ERROR_PROCESSING

\* one finished run whose completion call gave no result and one whose result
\* had no content; the page is in "Error Processing"
C31_Witness ==
    /\ \E d \in Deliveries :
          /\ wpc[d] = "responded"
          /\ \E i \in 1..Len(wtrace[d]) : wtrace[d][i] = Call("run_completion", "", "none")
          /\ WritesOf(wtrace[d], ERROR_PROCESSING) # <<>>
    /\ \E d \in Deliveries :
          /\ wpc[d] = "responded"
          /\ \E i \in 1..Len(wtrace[d]) : wtrace[d][i] = Call("run_completion", "", "ok")
          /\ WritesOf(wtrace[d], ERROR_PROCESSING) # <<>>
    /\ page_status = ERROR_PROCESSING

\* every status write the run has made went through
StatusWritesSucceeded(t) ==
    \A i \in 1..Len(StatusWrites(t)) : StatusWrites(t)[i].out = "ok"

\* C32: with its status writes succeeding, a run that wrote "In progress"
\* returns the acknowledgment only after a write of "Done" or "Error
\* Processing", which is its last call and leaves the page in that status; and
\* once every delivery has returned, with all status writes having succeeded, a
\* page that was set to "In progress" is not in that status any more.
C32_InProgressIsLeft ==
    /\ [][\A d \in Deliveries :
             ( /\ wpc[d] # "responded"
               /\ wpc'[d] = "responded"
               /\ StatusWritesSucceeded(wtrace'[d])
               /\ WritesOf(wtrace'[d], IN_PROGRESS) # <<>> )
             => LET last == wtrace'[d][Len(wtrace'[d])]
                IN  /\ last.op = "update_page_status"
                    /\ last.arg \in {DONE, ERROR_PROCESSING}
                    /\ page_status' = last.arg
                    /\ resp'[d].kind = "received"]_vars
    /\ []( ( /\ \A d \in Deliveries : wpc[d] = "responded" /\ StatusWritesSucceeded(wtrace[d])
             /\ \E d \in Deliveries : WritesOf(wtrace[d], IN_PROGRESS) # <<>> )
           => page_status \in {DONE, ERROR_PROCESSING} )

\* a run whose "In progress" write went through, whose content fetch raised and
\* whose "Error Processing" write went through has returned
C32_Witness ==
    \E d \in Deliveries :
        /\ wpc[d] = "responded"
        /\ StatusWritesSucceeded(wtrace[d])
        /\ WritesOf(wtrace[d], IN_PROGRESS) # <<>>
        /\ \E i \in 1..Len(wtrace[d]) : wtrace[d][i] = Call("get_page_content", "", "raises")
        /\ wtrace[d][Len(wtrace[d])] = Call("update_page_status", ERROR_PROCESSING, "ok")
        /\ page_status = ERROR_PROCESSING

\* C33: a run that makes the "Done" write has made exactly one append before
\* it, and that append went through; so whenever some run has made the "Done"
\* write the page holds at least one appended block.
C33_DoneAfterOneAppend ==
    /\ \A d \in Deliveries : \A i \in 1..Len(wtrace[d]) :
          (wtrace[d][i].op = "update_page_status" /\ wtrace[d][i].arg = DONE)
          => /\ i > 1
             /\ wtrace[d][i - 1].op = "append_code_block_to_page"
             /\ wtrace[d][i - 1].out = "ok"
             /\ Len(Appends(SubSeq(wtrace[d], 1, i))) = 1
    /\ (\E d \in Deliveries : WritesOf(wtrace[d], DONE) # <<>>) => Len(page_blocks) >= 1

\* the page was set to "Done" by a run that appended one block, while the other
\* delivery appended nothing
C33_Witness ==
    \E d \in Deliveries :
        /\ wpc[d] = "responded"
        /\ wtrace[d] # <<>>
        /\ wtrace[d][Len(wtrace[d])] = Call("update_page_status", DONE, "ok")
        /\ Len(Appends(wtrace[d])) = 1
        /\ \A e \in Deliveries \ {d} : Appends(wtrace[e]) = <<>>
        /\ page_status = DONE
        /\ Len(page_blocks) = 1

\* the run has returned and its last status write was "Error Processing"
EndedInErrorProcessing(d) ==
    /\ wpc[d] = "responded"
    /\ StatusWrites(wtrace[d]) # <<>>
    /\ StatusWrites(wtrace[d])[Len(StatusWrites(wtrace[d]))].arg = ERROR_PROCESSING

\* C34 as stated: a run that ends by writing "Error Processing" has appended no block.
C34_Original ==
    \A d \in Deliveries :
        EndedInErrorProcessing(d) => AppliedAppends(wtrace[d]) = <<>>

\* C34: a run that ends by writing "Error Processing" has made at most one
\* append; it has appended a block only when the append call raised after the
\* store had applied it, or when the append went through and the "Done" write
\* that followed raised; a run that failed before the append, or whose append
\* did not reach the store, has appended nothing.
C34_ErrorAfterAppendOnly ==
    \A d \in Deliveries :
        EndedInErrorProcessing(d)
        => LET t == wtrace[d]
           IN  /\ Len(Appends(t)) <= 1
               /\ \A i \in 1..Len(t) :
                     (t[i].op = "append_code_block_to_page" /\ t[i].out # "raises")
                     => \/ t[i].out = "json_error"
                        \/ /\ t[i].out = "ok"
                           /\ Len(t) > i
                           /\ t[i + 1].op = "update_page_status"
                           /\ t[i + 1].arg = DONE
                           /\ t[i + 1].out # "ok"
               /\ (\A i \in 1..Len(t) : t[i].op = "append_code_block_to_page" => t[i].out = "raises")
                     => AppliedAppends(t) = <<>>

\* the append went through, the "Done" write raised, the run wrote "Error
\* Processing": the page holds the block and is in "Error Processing"
C34_Witness ==
    \E d \in Deliveries :
        /\ EndedInErrorProcessing(d)
        /\ \E i \in 1..(Len(wtrace[d]) - 1) :
              /\ wtrace[d][i].op = "append_code_block_to_page"
              /\ wtrace[d][i].out = "ok"
              /\ wtrace[d][i + 1] = Call("update_page_status", DONE, "raises")
        /\ page_status = ERROR_PROCESSING
        /\ Len(page_blocks) = 1

\* the page fetch of the run's status read raised
ReadRaised(t) == \E i \in 1..Len(t) : t[i].op = "get_page_status" /\ t[i].out = "raises"

\* C38: when the page fetch of the status read raises, get_page_status gives
\* the absent value and the run is acknowledged in that step, whatever the
\* status of the page is; the read stays the run's only call: no status write,
\* no page or content fetch, no completion call, no append.
C38_FailedReadIsNotEligible ==
    /\ [][\A d \in Deliveries :
             (wpc[d] = "read_status" /\ ~ReadRaised(wtrace[d]) /\ ReadRaised(wtrace'[d]))
             => /\ wl'[d].current_status = ""
                /\ wpc'[d] = "responded"
                /\ resp'[d] = [code |-> 200, kind |-> "received", value |-> wl[d].page_id]
                /\ page_status' = page_status
                /\ page_blocks' = page_blocks]_vars
    /\ [](\A d \in Deliveries :
             ReadRaised(wtrace[d])
             => /\ Work(wtrace[d]) = <<Call("get_page_status", "", "raises")>>
                /\ wpc[d] = "responded")

\* the page is "Ready for analysis", the status read of a delivery for it
\* raised, and the delivery was acknowledged with the page left as it was
C38_Witness ==
    \E d \in Deliveries :
        /\ wpc[d] = "responded"
        /\ ReadRaised(wtrace[d])
        /\ resp[d].kind = "received"
        /\ page_status = READY
        /\ page_blocks = <<>>
        /\ \A e \in Deliveries \ {d} : wpc[e] = "idle"


(***************************************************************************)
(*                 properties of the merchant and offer routes             *)
(***************************************************************************)
\* no request takes a merchant that an offer references out of the merchant table
ReferencedMerchantIsKept ==
    \A id \in MerchantIds :
        /\ RowIndex(offers_df, "merchant_id", id) # {}
        /\ RowIndex(merchants_df, "merchant_id", id) # {}
        => RowIndex(merchants_df', "merchant_id", id) # {}

\* C39: from tables in which every offer's merchant_id names an existing
\* merchant, that stays so after any sequence of add_offer, delete_offer,
\* add_merchant, edit_merchant and delete_merchant requests, and no request
\* takes a merchant that an offer references out of the merchant table.
C39_OffersNameMerchants ==
    /\ [](Referenced(merchants_df, offers_df))
    /\ [][ReferencedMerchantIsKept]_vars

\* the part of C39 about delete_merchant: a merchant with offers stays in the table
C39_DeleteKeepsReferenced == [][ReferencedMerchantIsKept]_vars

====
